---- MODULE Spec2Model ----
(***************************************************************************)
(* Model of the CheckList backend: the ingestion pipeline                  *)
(* (pipelines/ingest.py), the Weaviate adapter (services/vector_db.py),    *)
(* the chunker (services/parser.py), the judgment engine                   *)
(* (services/claude.py), the checklist run route (routes/checklist.py),    *)
(* the retrieval comparison (services/comparison.py) and the service       *)
(* accessors (dependencies.py).                                            *)
(*                                                                         *)
(* Python strings are kept in run-length form: a string is a sequence of   *)
(* runs [c |-> character, n |-> repetitions], n > 0, adjacent runs having  *)
(* different characters, so that equal strings have equal values and a     *)
(* text of a few thousand characters stays small.                          *)
(***************************************************************************)
EXTENDS Integers, Sequences, FiniteSets, TLC

VARIABLES
    store,      \* collection name -> sequence of stored objects (insertion order)
    connected,  \* WeaviateService._initialized
    templates,  \* StorageService templates.json: sequence of templates
    results,    \* StorageService results.json: sequence of ChecklistResults
    nextId,     \* source of fresh uuid4 values of StorageService
    last,       \* the last operation: its arguments, what it returned or raised
                \* (for process_file also: the status of the call before it
                \* when that was process_file on the same file and collection)
    handles,    \* accessor function -> the service instance it holds (0: none)
    questions_file,   \* StorageService questions.json: sequence of questions
    conditions_file,  \* StorageService conditions.json: sequence of conditions
    ingestions  \* caller -> how far its process_file call has got, with the
                \* chunks and embeddings it holds (callers are processes of
                \* their own, each with its own connection to the index)

vars == <<store, connected, templates, results, nextId, last, handles, questions_file, conditions_file, ingestions>>

-----------------------------------------------------------------------------
(* Bounds of the model *)

ShortLen == 2          \* length of the one-chunk file text
LongLen == 1700        \* length of the three-chunk file text
MaxFailed == 1         \* most objects of one batch the index rejects
MaxBatch == 2          \* longest process_batch input
MaxTemplates == 1      \* most templates kept in templates.json
MaxResults == 1        \* most results kept in results.json
MaxPermute == 3        \* largest document whose every fetch order is tried
MaxItems == 2          \* most items of a batch put to the judgment engine
MaxTextLen == 4        \* longest text put to chunk_text on its own
MaxSize == 3           \* largest chunk size and overlap put to chunk_text on its own
MaxIds == 2             \* most uuid4 values handed out while the catalogue is edited
MaxRequestIds == 2      \* most question ids of one create-template request
MaxDirect == 1         \* a direct add_document_chunks is made into a collection holding fewer objects

-----------------------------------------------------------------------------
(* Program constants *)

CHECKLIST_COLLECTION == "ChecklistTemplates"
USER_DOCUMENT_COLLECTION == "UserDocuments"
INGEST_CHUNK_SIZE == 1000
INGEST_OVERLAP == 200
CONTENT_FETCH_LIMIT == 10000
RUN_FETCH_LIMIT == 1000

CollectionTypes == {"checklist", "user"}
CollectionNames == {CHECKLIST_COLLECTION, USER_DOCUMENT_COLLECTION}

-----------------------------------------------------------------------------
(* Python str in run-length form *)

Whitespace == {" ", "\n", "\t"}

Str(c, n) == IF n <= 0 THEN <<>> ELSE <<[c |-> c, n |-> n]>>

\* s + t
Concat(s, t) ==
    IF s = <<>> THEN t
    ELSE IF t = <<>> THEN s
    ELSE IF s[Len(s)].c = t[1].c
         THEN SubSeq(s, 1, Len(s) - 1)
              \o <<[c |-> t[1].c, n |-> s[Len(s)].n + t[1].n]>>
              \o Tail(t)
         ELSE s \o t

RECURSIVE StrLen(_)
\* len(s)
StrLen(s) == IF s = <<>> THEN 0 ELSE s[1].n + StrLen(Tail(s))

RECURSIVE Slice(_, _, _)
\* s[a:b] for 0 <= a
Slice(s, a, b) ==
    IF s = <<>> \/ b <= a THEN <<>>
    ELSE LET n == s[1].n
         IN  IF a >= n THEN Slice(Tail(s), a - n, b - n)
             ELSE LET take == (IF b < n THEN b ELSE n) - a
                  IN  Concat(Str(s[1].c, take),
                             Slice(Tail(s), 0, b - n))

IsBlank_empty_only(s) == s = <<>>

\* not s.strip()
IsBlank(s) == \A i \in DOMAIN s : s[i].c \in Whitespace

RECURSIVE JoinRange(_, _, _, _)
JoinRange(sep, parts, lo, hi) ==
    IF lo > hi THEN <<>>
    ELSE IF lo = hi THEN parts[lo]
    ELSE LET mid == (lo + hi) \div 2
         IN  Concat(Concat(JoinRange(sep, parts, lo, mid), sep),
                    JoinRange(sep, parts, mid + 1, hi))

\* sep.join(parts)
Join(sep, parts) == JoinRange(sep, parts, 1, Len(parts))

BlankLine == Str("\n", 2)

-----------------------------------------------------------------------------
(* Exceptions and os.path *)

\* an exception: its class name and str(e), the latter as the sequence of the
\* parts it is formatted from
Exc(type, message) == [type |-> type, message |-> message]

ErrorMsg_message_only(e) == <<e.message>>

\* f"{type(e).__name__}: {str(e)}"
ErrorMsg(e) == <<e.type, ": ", e.message>>

Paths == {"/in/a.pdf", "/in/b.pdf"}

\* os.path.basename
basename(path) ==
    CASE path = "/in/a.pdf" -> "a.pdf"
      [] path = "/in/b.pdf" -> "b.pdf"
      [] path = "/tmp/tmpq3x8v1zk.pdf" -> "tmpq3x8v1zk.pdf"
      [] path = "/tmp/tmp7h2m4c9d.pdf" -> "tmp7h2m4c9d.pdf"
      [] OTHER -> path

Filenames == {basename(p) : p \in Paths}

\* what the file system holds at a path when the pipeline looks: nothing, or
\* a PDF (its bytes, and the text PyMuPDF extracts from them)
NoFile == [exists |-> FALSE]
FileOf(bytes, text) == [exists |-> TRUE, bytes |-> bytes, text |-> text]

-----------------------------------------------------------------------------
(* services/parser.py *)

Diverges == "diverges"

RECURSIVE chunk_loop(_, _, _, _, _, _)
chunk_loop(text, size, overlap_size, text_length, start, chunks) ==
    IF start < text_length
    THEN chunk_loop(text, size, overlap_size, text_length,
                    start + (size - overlap_size),
                    Append(chunks, Slice(text, start, start + size)))
    ELSE chunks

\* whether the while loop of chunk_text ends: start grows by
\* size - overlap_size per turn and must pass text_length
chunk_text_terminates(text, size, overlap_size) ==
    text = <<>> \/ size - overlap_size > 0

chunk_text_disjoint_windows(text, size, overlap_size) ==
    IF ~chunk_text_terminates(text, size, overlap_size) THEN Diverges
    ELSE IF text = <<>> THEN <<>>
    ELSE chunk_loop(text, size, 0, StrLen(text), 0, <<>>)

chunk_text_full_windows_only(text, size, overlap_size) ==
    IF ~chunk_text_terminates(text, size, overlap_size) THEN Diverges
    ELSE IF text = <<>> THEN <<>>
    ELSE SelectSeq(chunk_loop(text, size, overlap_size, StrLen(text), 0, <<>>),
                   LAMBDA chunk : StrLen(chunk) = size)

\* DocumentParser.chunk_text; with size <= overlap the loop never ends
chunk_text(text, size, overlap_size) ==
    IF ~chunk_text_terminates(text, size, overlap_size) THEN Diverges
    ELSE IF text = <<>> THEN <<>>
    ELSE chunk_loop(text, size, overlap_size, StrLen(text), 0, <<>>)

\* DocumentParser.parse_pdf: the text of the file, its metadata, and the
\* chunks of the text under the parser's default sizes
parse_pdf(path, file, fault) ==
    IF ~file.exists
    THEN [raised |-> TRUE,
          exc |-> Exc("FileNotFoundError", <<"File not found: ", path>>)]
    ELSE IF fault = "parse"
    THEN [raised |-> TRUE, exc |-> Exc("FileDataError", <<"cannot open document">>)]
    ELSE [raised |-> FALSE,
          text |-> file.text,
          metadata |-> [filename |-> basename(path), file_path |-> path],
          chunks |-> chunk_text(file.text, INGEST_CHUNK_SIZE, INGEST_OVERLAP)]

-----------------------------------------------------------------------------
(* services/embeddings.py *)

\* the embedding model, a fixed function of the text
Vec(s) == StrLen(s)

\* EmbeddingService.encode_batch
encode_batch(texts, fault) ==
    IF texts = <<>> THEN [raised |-> FALSE, embeddings |-> <<>>]
    ELSE IF fault = "embed"
    THEN [raised |-> TRUE, exc |-> Exc("RuntimeError", <<"model unavailable">>)]
    ELSE [raised |-> FALSE,
          embeddings |-> [i \in DOMAIN texts |-> Vec(texts[i])]]

-----------------------------------------------------------------------------
(* services/vector_db.py *)

collection_name_shared(collection_type) == USER_DOCUMENT_COLLECTION

collection_name(collection_type) ==
    IF collection_type = "checklist" THEN CHECKLIST_COLLECTION
    ELSE USER_DOCUMENT_COLLECTION

ConnectError == Exc("WeaviateConnectionError", <<"connection failed">>)

\* WeaviateService._connect
connect(conn, fault) ==
    IF conn THEN [raised |-> FALSE, connected |-> TRUE]
    ELSE IF fault = "connect"
    THEN [raised |-> TRUE, exc |-> ConnectError, connected |-> FALSE]
    ELSE [raised |-> FALSE, connected |-> TRUE]

Min(a, b) == IF a < b THEN a ELSE b

delete_by_filename_absent_is_error(st, conn, filename, collection_type, fault) ==
    LET c == connect(conn, fault)
        name == collection_name(collection_type)
        kept == SelectSeq(st[name], LAMBDA o : o.filename # filename)
    IN  IF c.raised
        THEN [raised |-> TRUE, exc |-> c.exc, store |-> st,
              connected |-> c.connected]
        ELSE IF fault = "delete" \/ Len(kept) = Len(st[name])
        THEN [raised |-> TRUE, exc |-> Exc("UnexpectedStatusCodeError", <<"delete failed">>),
              store |-> st, connected |-> c.connected]
        ELSE [raised |-> FALSE,
              store |-> [st EXCEPT ![name] = kept],
              connected |-> c.connected,
              ret |-> Len(st[name]) - Len(kept)]

\* WeaviateService.delete_by_filename
delete_by_filename(st, conn, filename, collection_type, fault) ==
    LET c == connect(conn, fault)
        name == collection_name(collection_type)
        kept == SelectSeq(st[name], LAMBDA o : o.filename # filename)
    IN  IF c.raised
        THEN [raised |-> TRUE, exc |-> c.exc, store |-> st,
              connected |-> c.connected]
        ELSE IF fault = "delete"
        THEN [raised |-> TRUE, exc |-> Exc("UnexpectedStatusCodeError", <<"delete failed">>),
              store |-> st, connected |-> c.connected]
        ELSE [raised |-> FALSE,
              store |-> [st EXCEPT ![name] = kept],
              connected |-> c.connected,
              ret |-> Len(st[name]) - Len(kept)]

\* WeaviateService.add_document_chunks; failed is the set of positions of the
\* batch the index rejects (they end in batch.failed_objects)
add_document_chunks(st, conn, chunks, embeddings, metadata, collection_type, fault, failed) ==
    LET c == connect(conn, fault)
        name == collection_name(collection_type)
        count == Min(Len(chunks), Len(embeddings))
        objects == [i \in 1..count |->
                       [content |-> chunks[i],
                        filename |-> metadata.filename,
                        chunk_index |-> i - 1,
                        vector |-> embeddings[i]]]
        inserted == SelectSeq(objects, LAMBDA o : o.chunk_index \notin failed)
    IN  IF c.raised
        THEN [raised |-> TRUE, exc |-> c.exc, store |-> st,
              connected |-> c.connected]
        ELSE IF fault = "add"
        THEN [raised |-> TRUE, exc |-> Exc("WeaviateBatchError", <<"batch failed">>),
              store |-> st, connected |-> c.connected]
        ELSE [raised |-> FALSE,
              store |-> [st EXCEPT ![name] = st[name] \o inserted],
              connected |-> c.connected,
              ret |-> [i \in 1..count |-> <<"uuid", i - 1>>]]

\* collection.query.fetch_objects(filters=filename equal, limit): at most
\* limit of the matching objects, in the order the index hands them out
\* (order is a permutation of the positions of the matching objects)
fetch_objects(objects, filename, limit, order) ==
    LET matching == SelectSeq(objects, LAMBDA o : o.filename = filename)
    IN  [i \in 1..Min(limit, Len(matching)) |-> matching[order[i]]]

\* Optional values: None, or Some(v) where a value may be None instead
None == [none |-> TRUE]
Some(v) == [none |-> FALSE, value |-> v]

\* x.properties.get("chunk_index", 0) as the key of sorted / list.sort
by_chunk_index(a, b) == a.chunk_index < b.chunk_index

\* WeaviateService.get_document_content
get_document_content(st, conn, filename, collection_type, fault, order) ==
    LET c == connect(conn, fault)
        name == collection_name(collection_type)
        objects == fetch_objects(st[name], filename, CONTENT_FETCH_LIMIT, order)
        chunks == SortSeq(objects, by_chunk_index)
    IN  IF c.raised
        THEN [raised |-> TRUE, exc |-> c.exc, connected |-> c.connected]
        ELSE IF objects = <<>>
        THEN [raised |-> FALSE, connected |-> c.connected, ret |-> None]
        ELSE [raised |-> FALSE, connected |-> c.connected,
              ret |-> Some(Join(BlankLine,
                                [i \in DOMAIN chunks |-> chunks[i].content]))]

\* the parameters of WeaviateService.search
SearchParameters == {"query_vector", "limit", "filename", "collection_type"}

\* a keyword argument of a call
Kw(name, value) == [name |-> name, value |-> value]

\* the value a call gives for a parameter, if it gives one
Arg(kwargs, name) ==
    LET given == SelectSeq(kwargs, LAMBDA k : k.name = name)
    IN  IF given = <<>> THEN None ELSE Some(given[1].value)

Abs(x) == IF x < 0 THEN -x ELSE x

\* WeaviateService.search called with the keyword arguments kwargs: the call
\* is bound to the parameters, then the nearest objects are returned
search(st, conn, kwargs, fault) ==
    LET nearest(objects, query_vector, limit) ==
            LET ranked(sorted) ==
                    [i \in 1..Min(limit, Len(sorted)) |->
                        [content |-> sorted[i].content,
                         filename |-> sorted[i].filename,
                         chunk_index |-> sorted[i].chunk_index,
                         distance |-> Abs(sorted[i].vector - query_vector)]]
            IN  ranked(SortSeq(objects,
                               LAMBDA a, b : Abs(a.vector - query_vector)
                                             < Abs(b.vector - query_vector)))
        query(c, query_vector, limit, filename, collection_type) ==
            IF c.raised
            THEN [raised |-> TRUE, connected |-> c.connected, exc |-> c.exc]
            ELSE [raised |-> FALSE, connected |-> c.connected,
                  ret |-> nearest(
                      IF filename = None
                      THEN st[collection_name(collection_type)]
                      ELSE SelectSeq(st[collection_name(collection_type)],
                                     LAMBDA o : o.filename = filename.value),
                      query_vector, limit)]
        bind(unexpected, query_vector, limit, filename, collection_type) ==
            IF unexpected # <<>>
            THEN [raised |-> TRUE, connected |-> conn,
                  exc |-> Exc("TypeError",
                              <<"search() got an unexpected keyword argument '",
                                unexpected[1].name, "'">>)]
            ELSE IF query_vector = None
            THEN [raised |-> TRUE, connected |-> conn,
                  exc |-> Exc("TypeError",
                              <<"search() missing 1 required positional ",
                                "argument: 'query_vector'">>)]
            ELSE query(connect(conn, fault), query_vector.value,
                       IF limit = None THEN 5 ELSE limit.value, filename,
                       IF collection_type = None THEN "user"
                       ELSE collection_type.value)
    IN  bind(SelectSeq(kwargs, LAMBDA k : k.name \notin SearchParameters),
             Arg(kwargs, "query_vector"), Arg(kwargs, "limit"),
             Arg(kwargs, "filename"), Arg(kwargs, "collection_type"))

\* WeaviateService.clear_all: delete_many where filename contains_any ["*"],
\* which matches the objects whose filename is the literal "*"
clear_all(st, conn, collection_type, fault) ==
    LET c == connect(conn, fault)
        name == collection_name(collection_type)
    IN  IF c.raised
        THEN [raised |-> TRUE, exc |-> c.exc, store |-> st,
              connected |-> c.connected]
        ELSE [raised |-> FALSE,
              store |-> [st EXCEPT ![name] =
                            SelectSeq(st[name], LAMBDA o : o.filename # "*")],
              connected |-> c.connected]

\* WeaviateService.upload_pdf_to_weaviate: the base64 text of the bytes
upload_pdf_to_weaviate(pdf_bytes, filename, collection_type) == <<"b64", pdf_bytes>>

-----------------------------------------------------------------------------
(* services/storage.py *)

\* StorageService.create_question: the question gets a fresh uuid4 and is
\* appended to questions.json
create_question(qs, nid, question) ==
    LET saved == [question EXCEPT !.id = [uuid4 |-> nid]]
    IN  [file |-> Append(qs, saved), nextId |-> nid + 1, ret |-> saved]

\* StorageService.get_question
get_question(qs, question_id) ==
    LET hits == SelectSeq(qs, LAMBDA q : q.id = question_id)
    IN  IF hits = <<>> THEN None ELSE hits[1]

\* StorageService.update_question: q.update(updates) on the first question
\* with the id
update_question(qs, question_id, updates) ==
    LET hits == {i \in DOMAIN qs : qs[i].id = question_id}
        first == CHOOSE i \in hits : \A j \in hits : i <= j
    IN  IF hits = {} THEN [file |-> qs, ret |-> None]
        ELSE [file |-> [qs EXCEPT ![first] = updates @@ qs[first]],
              ret |-> updates @@ qs[first]]

\* StorageService.delete_question
delete_question(qs, question_id) ==
    LET kept == SelectSeq(qs, LAMBDA q : q.id # question_id)
    IN  [file |-> kept, ret |-> Len(kept) < Len(qs)]

\* StorageService.create_condition
create_condition(cs, nid, condition) ==
    LET saved == [condition EXCEPT !.id = [uuid4 |-> nid]]
    IN  [file |-> Append(cs, saved), nextId |-> nid + 1, ret |-> saved]

\* StorageService.get_condition
get_condition(cs, condition_id) ==
    LET hits == SelectSeq(cs, LAMBDA c : c.id = condition_id)
    IN  IF hits = <<>> THEN None ELSE hits[1]

\* StorageService.update_condition
update_condition(cs, condition_id, updates) ==
    LET hits == {i \in DOMAIN cs : cs[i].id = condition_id}
        first == CHOOSE i \in hits : \A j \in hits : i <= j
    IN  IF hits = {} THEN [file |-> cs, ret |-> None]
        ELSE [file |-> [cs EXCEPT ![first] = updates @@ cs[first]],
              ret |-> updates @@ cs[first]]

\* StorageService.delete_condition
delete_condition(cs, condition_id) ==
    LET kept == SelectSeq(cs, LAMBDA c : c.id # condition_id)
    IN  [file |-> kept, ret |-> Len(kept) < Len(cs)]

\* StorageService.create_template: the template gets a fresh uuid4 and is
\* appended to templates.json
create_template(tmpls, nid, template) ==
    LET saved == [template EXCEPT !.id = [uuid4 |-> nid]]
    IN  [templates |-> Append(tmpls, saved), nextId |-> nid + 1, ret |-> saved]

\* StorageService.get_template
get_template(tmpls, template_id) ==
    LET hits == SelectSeq(tmpls, LAMBDA t : t.id = template_id)
    IN  IF hits = <<>> THEN None ELSE hits[1]

\* StorageService.save_result
save_result(ress, nid, result) ==
    LET saved == [result EXCEPT !.id = [uuid4 |-> nid]]
    IN  [results |-> Append(ress, saved), nextId |-> nid + 1, ret |-> saved]

-----------------------------------------------------------------------------
(* services/claude.py *)

\* dict.get(key, default)
Get(d, key, default) == IF key \in DOMAIN d THEN d[key] ELSE default

\* Python values whose type the code's behaviour depends on
PyBool(b) == [pytype |-> "bool", bool |-> b]
PyStr(s) == [pytype |-> "str", str |-> s]

\* a value json.loads returns that is not a dict: a list, a str, an int, None
NonDict(pytype) == [pytype |-> pytype]
IsDict(value) == "pytype" \notin DOMAIN value

\* bool(v): the truth value that `if v` and all(...) test
Truthy(v) == IF v.pytype = "bool" THEN v.bool ELSE v.str # ""

extract_information_error_as_parse_failure(document_content, question, context, response) ==
    IF response.kind = "json"
    THEN response.value
    ELSE [answer |-> IF response.kind = "api_error"
                     THEN <<"Error: ", response.message>>
                     ELSE <<response.text>>,
          confidence |-> "medium",
          evidence |-> "",
          explanation |-> <<"Response parsing failed">>]

\* ClaudeService.extract_information; response is what the completion call
\* does: it raises (api_error), or returns text that json.loads accepts
\* (json, with the parsed value) or rejects (text).  A text is a sequence of
\* the parts it is formatted from.
extract_information(document_content, question, context, response) ==
    IF response.kind = "api_error"
    THEN [answer |-> <<"Error: ", response.message>>,
          confidence |-> "low",
          evidence |-> "",
          explanation |-> <<"API call failed">>]
    ELSE IF response.kind = "json"
    THEN response.value
    ELSE [answer |-> <<response.text>>,
          confidence |-> "medium",
          evidence |-> "",
          explanation |-> <<"Response parsing failed">>]

evaluate_condition_unparsed_is_met(document_content, condition, context, response) ==
    IF response.kind = "api_error"
    THEN [is_met |-> PyBool(FALSE),
          confidence |-> "low",
          evidence |-> "",
          reasoning |-> <<"API call failed: ", response.message>>,
          recommendations |-> "Please review manually"]
    ELSE IF response.kind = "json"
    THEN response.value
    ELSE [is_met |-> PyBool(TRUE),
          confidence |-> "high",
          evidence |-> "",
          reasoning |-> <<response.text>>,
          recommendations |-> ""]

\* ClaudeService.evaluate_condition
evaluate_condition(document_content, condition, context, response) ==
    IF response.kind = "api_error"
    THEN [is_met |-> PyBool(FALSE),
          confidence |-> "low",
          evidence |-> "",
          reasoning |-> <<"API call failed: ", response.message>>,
          recommendations |-> "Please review manually"]
    ELSE IF response.kind = "json"
    THEN response.value
    ELSE [is_met |-> PyBool(FALSE),
          confidence |-> "low",
          evidence |-> "",
          reasoning |-> <<"Response parsing failed">>,
          recommendations |-> "Please review manually"]

\* result['question_id'] = ... on a value that is not a dict
ItemAssignmentError(value) ==
    Exc("TypeError",
        IF value.pytype = "list"
        THEN <<"list indices must be integers or slices, not str">>
        ELSE <<"'", value.pytype,
               "' object does not support item assignment">>)

\* the loop of batch_extract and batch_evaluate over the results of the items:
\* one completion call per iteration, the id stamped on the result, and the
\* loop left by the TypeError of a result that is not a dict
batch_stamp(kind, id_key, text_key, document_content, items, item_results) ==
    LET bad == {i \in DOMAIN items : ~IsDict(item_results[i])}
        stop == IF bad = {} THEN Len(items)
                ELSE CHOOSE m \in bad : \A n \in bad : m <= n
        done == IF bad = {} THEN stop ELSE stop - 1
    IN  [raised |-> bad # {},
         exc |-> IF bad = {} THEN None
                 ELSE ItemAssignmentError(item_results[stop]),
         results |->
            [i \in 1..done |-> (id_key :> items[i].id) @@ item_results[i]],
         llm_calls |->
            [i \in 1..stop |->
                [kind |-> kind, position |-> i, item |-> items[i][text_key],
                 document_content |-> document_content]]]

\* ClaudeService.batch_extract: results, and the completion calls issued
batch_extract(document_content, questions, responses) ==
    batch_stamp("extract", "question_id", "question", document_content,
                questions,
                [i \in DOMAIN questions |->
                    extract_information(document_content,
                                        questions[i].question,
                                        questions[i].context, responses[i])])

\* ClaudeService.batch_evaluate
batch_evaluate(document_content, conditions, responses) ==
    batch_stamp("evaluate", "condition_id", "condition", document_content,
                conditions,
                [i \in DOMAIN conditions |->
                    evaluate_condition(document_content,
                                       conditions[i].condition,
                                       conditions[i].context, responses[i])])

-----------------------------------------------------------------------------
(* models/checklist.py *)

\* the strings a bool field takes for True and for False
BoolTrueStrings == {"1", "on", "t", "true", "y", "yes"}
BoolFalseStrings == {"0", "off", "f", "false", "n", "no"}

\* ConditionEvaluation.is_met: bool, the validation of the value given for it:
\* the bool it is recorded as, or None for a validation error
validate_bool(v) ==
    IF v.pytype = "bool" THEN Some(v.bool)
    ELSE IF v.str \in BoolTrueStrings THEN Some(TRUE)
    ELSE IF v.str \in BoolFalseStrings THEN Some(FALSE)
    ELSE None

-----------------------------------------------------------------------------
(* routes/checklist.py *)

HTTPException(status_code, detail) ==
    [status_code |-> status_code, detail |-> detail]

\* the first element of items with the given id, else the default
FirstWithId(items, id, field, default) ==
    LET hits == SelectSeq(items, LAMBDA x : x.id = id)
    IN  IF hits = <<>> THEN default ELSE hits[1][field]

create_template_route_in_file_order(qs, cs, tmpls, nid, request) ==
    create_template(
        tmpls, nid,
        [id |-> None, name |-> request.name,
         questions |-> SelectSeq(qs, LAMBDA q :
                          \E i \in DOMAIN request.question_ids :
                              request.question_ids[i] = q.id),
         conditions |-> SelectSeq(cs, LAMBDA c :
                          \E i \in DOMAIN request.condition_ids :
                              request.condition_ids[i] = c.id)])

\* the route create_template (POST /templates): the ids of the request are
\* looked up, the ones that resolve make the template
create_template_route(qs, cs, tmpls, nid, request) ==
    LET found_questions == [i \in DOMAIN request.question_ids |->
                               get_question(qs, request.question_ids[i])]
        found_conditions == [i \in DOMAIN request.condition_ids |->
                                get_condition(cs, request.condition_ids[i])]
    IN  create_template(
            tmpls, nid,
            [id |-> None, name |-> request.name,
             questions |-> SelectSeq(found_questions, LAMBDA q : q # None),
             conditions |-> SelectSeq(found_conditions, LAMBDA c : c # None)])

\* run_checklist.  order is the order the index hands the chunks out in,
\* q_responses and c_responses what the completion calls do.
run_checklist(st, conn, tmpls, ress, nid, request, fault, order, q_responses, c_responses) ==
    LET Raise(e) == [raised |-> TRUE, exc |-> e, llm_calls |-> <<>>,
                     results |-> ress, nextId |-> nid]
        template == get_template(tmpls, request.checklist_id)
    IN
    IF template = None
    THEN Raise(HTTPException(404, <<"Checklist template not found">>))
    ELSE IF ~conn
    THEN Raise(HTTPException(500,
            <<"Error retrieving document: ",
              "'NoneType' object has no attribute 'collections'">>))
    ELSE IF fault = "fetch"
    THEN Raise(HTTPException(500,
            <<"Error retrieving document: ", "query failed">>))
    ELSE
    LET objects == fetch_objects(st[USER_DOCUMENT_COLLECTION],
                                 request.document_filename, RUN_FETCH_LIMIT,
                                 order)
    IN
    IF objects = <<>>
    THEN Raise(HTTPException(404,
            <<"Document '", request.document_filename,
              "' not found in database">>))
    ELSE
    LET chunks_with_index == SortSeq(objects, by_chunk_index)
        document_content ==
            Join(BlankLine, [i \in DOMAIN chunks_with_index |->
                                chunks_with_index[i].content])
    IN
    IF document_content = <<>>
    THEN Raise(HTTPException(400, <<"Could not retrieve document content">>))
    ELSE
    LET question_dicts ==
            [i \in DOMAIN template.questions |->
                [id |-> template.questions[i].id,
                 question |-> template.questions[i].question,
                 context |-> template.questions[i].context]]
        answers == batch_extract(document_content, question_dicts, q_responses)
    IN
    IF answers.raised
    THEN [raised |-> TRUE, exc |-> answers.exc,
          llm_calls |-> answers.llm_calls, results |-> ress, nextId |-> nid]
    ELSE
    LET condition_dicts ==
            [i \in DOMAIN template.conditions |->
                [id |-> template.conditions[i].id,
                 condition |-> template.conditions[i].condition,
                 context |-> template.conditions[i].context]]
        evaluations == batch_evaluate(document_content, condition_dicts,
                                      c_responses)
        llm_calls == answers.llm_calls \o evaluations.llm_calls
    IN
    IF evaluations.raised
    THEN [raised |-> TRUE, exc |-> evaluations.exc, llm_calls |-> llm_calls,
          results |-> ress, nextId |-> nid]
    ELSE
    LET is_met(e) == Get(e, "is_met", PyBool(FALSE))
        total_conditions == Len(evaluations.results)
        met_conditions ==
            Cardinality({i \in DOMAIN evaluations.results :
                            Truthy(is_met(evaluations.results[i]))})
        compliance_percentage ==
            IF total_conditions > 0
            THEN [num |-> met_conditions * 100, den |-> total_conditions]
            ELSE [num |-> 100, den |-> 1]
        overall_compliance ==
            \A i \in DOMAIN evaluations.results :
                Truthy(is_met(evaluations.results[i]))
        validated ==
            [i \in DOMAIN evaluations.results |->
                validate_bool(is_met(evaluations.results[i]))]
    IN
    IF \E i \in DOMAIN validated : validated[i] = None
    THEN [raised |-> TRUE,
          exc |-> Exc("ValidationError", <<"is_met: value is not a valid boolean">>),
          llm_calls |-> llm_calls, results |-> ress, nextId |-> nid]
    ELSE
    LET result ==
            [id |-> None,
             checklist_id |-> request.checklist_id,
             checklist_name |-> template.name,
             document_filename |-> request.document_filename,
             answers |->
                [i \in DOMAIN answers.results |->
                    LET a == answers.results[i]
                    IN  [question_id |-> Get(a, "question_id", ""),
                         question |-> FirstWithId(template.questions,
                                        Get(a, "question_id", None),
                                        "question", ""),
                         answer |-> Get(a, "answer", <<>>),
                         confidence |-> Get(a, "confidence", "medium"),
                         evidence |-> Get(a, "evidence", ""),
                         explanation |-> Get(a, "explanation", <<>>)]],
             evaluations |->
                [i \in DOMAIN evaluations.results |->
                    LET e == evaluations.results[i]
                    IN  [condition_id |-> Get(e, "condition_id", ""),
                         condition |-> FirstWithId(template.conditions,
                                        Get(e, "condition_id", None),
                                        "condition", ""),
                         is_met |-> validated[i].value,
                         confidence |-> Get(e, "confidence", "medium"),
                         evidence |-> Get(e, "evidence", ""),
                         reasoning |-> Get(e, "reasoning", <<>>),
                         recommendations |-> Get(e, "recommendations", "")]],
             overall_compliance |-> overall_compliance,
             compliance_percentage |-> compliance_percentage]
        saved == save_result(ress, nid, result)
    IN  [raised |-> FALSE, ret |-> saved.ret, llm_calls |-> llm_calls,
         results |-> saved.results, nextId |-> saved.nextId]

-----------------------------------------------------------------------------
(* services/llm.py and services/comparison.py *)

\* the methods LLMService defines
LLMServiceMethods == {"generate_response", "analyze_compliance"}

\* await self.llm.<method>(prompt); response is what the completion call does
llm_call(method, prompt, response) ==
    IF method \notin LLMServiceMethods
    THEN [raised |-> TRUE, called |-> FALSE,
          exc |-> Exc("AttributeError",
                      <<"'LLMService' object has no attribute '", method,
                        "'">>)]
    ELSE IF response.kind = "api_error"
    THEN [raised |-> TRUE, called |-> TRUE,
          exc |-> Exc("APIError", <<response.message>>)]
    ELSE [raised |-> FALSE, called |-> TRUE, ret |-> response]

\* content[:200] + "..." if len(content) > 200 else content
Shown(content) ==
    IF StrLen(content) > 200
    THEN Concat(Slice(content, 0, 200), Str(".", 3))
    ELSE content

\* ChecklistComparisonService._get_checklist_items
get_checklist_items(st, conn, checklist_filename, fault) ==
    LET collect(found) ==
            IF found.raised
            THEN [items |-> <<>>, connected |-> found.connected]
            ELSE [items |->
                    SortSeq([i \in DOMAIN found.ret |->
                                [content |-> found.ret[i].content,
                                 chunk_index |-> found.ret[i].chunk_index]],
                            LAMBDA a, b : a.chunk_index < b.chunk_index),
                  connected |-> found.connected]
    IN  collect(search(st, conn,
                       <<Kw("query", "*"), Kw("collection_type", "checklist"),
                         Kw("top_k", 1000),
                         Kw("filters", [filename |-> checklist_filename])>>,
                       fault))

\* the item _check_item_compliance reports when its except clause catches e
CaughtItem(checklist_content, e) ==
    [checklist_item |-> Slice(checklist_content, 0, 200),
     compliant |-> PyBool(FALSE),
     reason |-> <<"Error: ">> \o e.message,
     confidence |-> 0]

\* the item _check_item_compliance reports without a verdict of the model
DefaultItem(checklist_content, reason) ==
    [checklist_item |-> Shown(checklist_content),
     compliant |-> PyBool(FALSE),
     reason |-> <<reason>>,
     confidence |-> 0]

\* _check_item_compliance from the completion on: the item parsed from it
judged_item(checklist_content, user_results, llm_response) ==
    IF llm_response.raised THEN CaughtItem(checklist_content, llm_response.exc)
    ELSE IF llm_response.ret.kind = "text"
    THEN DefaultItem(checklist_content, "Failed to parse LLM response")
    ELSE IF ~IsDict(llm_response.ret.value)
    THEN CaughtItem(checklist_content,
                    Exc("AttributeError",
                        <<"'", llm_response.ret.value.pytype,
                          "' object has no attribute 'get'">>))
    ELSE [checklist_item |-> Shown(checklist_content),
          compliant |-> Get(llm_response.ret.value, "compliant", PyBool(FALSE)),
          reason |-> Get(llm_response.ret.value, "reason",
                         <<"Unable to determine">>),
          confidence |-> Get(llm_response.ret.value, "confidence", 0),
          relevant_content |-> Slice(user_results[1].content, 0, 300)]

\* ChecklistComparisonService._check_item_compliance: the item reported, and
\* the completion calls issued
check_item_compliance(st, conn, user_filename, checklist_item, top_k, fault, response) ==
    LET judge(user_results, prompt) ==
            LET finish(llm_response) ==
                    [item |-> judged_item(checklist_item.content,
                                          user_results.ret, llm_response),
                     llm_calls |-> IF llm_response.called THEN <<prompt>>
                                   ELSE <<>>,
                     connected |-> user_results.connected]
            IN  finish(llm_call("generate", prompt, response))
        after_search(user_results) ==
            IF user_results.raised
            THEN [item |-> CaughtItem(checklist_item.content, user_results.exc),
                  llm_calls |-> <<>>, connected |-> user_results.connected]
            ELSE IF user_results.ret = <<>>
            THEN [item |-> DefaultItem(checklist_item.content,
                               "No relevant content found in user document"),
                  llm_calls |-> <<>>, connected |-> user_results.connected]
            ELSE judge(user_results,
                       [requirement |-> checklist_item.content,
                        context |->
                          Join(BlankLine,
                               [i \in 1..Min(5, Len(user_results.ret)) |->
                                   user_results.ret[i].content])])
    IN  after_search(search(st, conn,
                            <<Kw("query", checklist_item.content),
                              Kw("collection_type", "user"),
                              Kw("top_k", top_k),
                              Kw("filters", [filename |-> user_filename])>>,
                            fault))

\* the report compare_document_with_checklist builds from the items' results
compliance_report(user_filename, checklist_filename, compliance_results) ==
    LET build(compliant_items, non_compliant_items) ==
            [status |-> "success",
             user_document |-> user_filename,
             checklist_template |-> checklist_filename,
             total_items |-> Len(compliance_results),
             compliant_count |-> Len(compliant_items),
             non_compliant_count |-> Len(non_compliant_items),
             compliance_rate |->
                 IF compliance_results # <<>>
                 THEN [num |-> Len(compliant_items),
                       den |-> Len(compliance_results)]
                 ELSE [num |-> 0, den |-> 1],
             compliant_items |-> compliant_items,
             non_compliant_items |-> non_compliant_items]
    IN  build(SelectSeq(compliance_results, LAMBDA r : Truthy(r.compliant)),
              SelectSeq(compliance_results, LAMBDA r : ~Truthy(r.compliant)))

compare_document_with_checklist_empty_report(st, conn, user_filename, checklist_filename, top_k, fault, responses) ==
    LET report(checklist) ==
            [ret |-> compliance_report(user_filename, checklist_filename, <<>>),
             llm_calls |-> <<>>, connected |-> checklist.connected]
    IN  report(get_checklist_items(st, conn, checklist_filename, fault))

\* ChecklistComparisonService.compare_document_with_checklist
compare_document_with_checklist(st, conn, user_filename, checklist_filename, top_k, fault, responses) ==
    LET collect(checklist, checked) ==
            [ret |-> compliance_report(user_filename, checklist_filename,
                                       [i \in DOMAIN checked |->
                                           checked[i].item]),
             llm_calls |-> [i \in DOMAIN checked |-> checked[i].llm_calls],
             connected |-> checklist.connected]
        report(checklist) ==
            IF checklist.items = <<>>
            THEN [ret |-> [status |-> "error",
                           error |-> <<"No checklist items found for '",
                                       checklist_filename, "'">>],
                  llm_calls |-> <<>>, connected |-> checklist.connected]
            ELSE collect(checklist,
                         [i \in DOMAIN checklist.items |->
                             check_item_compliance(
                                 st, checklist.connected, user_filename,
                                 checklist.items[i], top_k, "none",
                                 responses[i])])
    IN  report(get_checklist_items(st, conn, checklist_filename, fault))

-----------------------------------------------------------------------------
(* dependencies.py and the module-level accessors of the services *)

Accessor(module, name, service) ==
    [module |-> module, name |-> name, service |-> service]

\* get-or-create functions over a module-level global
GlobalAccessors ==
    {Accessor("services.vector_db", "get_vector_db", "WeaviateService"),
     Accessor("services.embeddings", "get_embedding_service",
              "EmbeddingService"),
     Accessor("services.llm", "get_llm_service", "LLMService")}

\* functions of dependencies.py under functools.lru_cache
CachedAccessors ==
    {Accessor("dependencies", "get_weaviate_service", "WeaviateService"),
     Accessor("dependencies", "get_embedding_service", "EmbeddingService"),
     Accessor("dependencies", "get_llm_service", "LLMService")}

Accessors == GlobalAccessors \cup CachedAccessors

\* the instances of a service class constructed so far in the process
Constructed(held, service) ==
    {held[a] : a \in {b \in Accessors : b.service = service /\ held[b] # 0}}

\* the constructor of a service class: a new instance, numbered in the
\* order of construction
construct(held, service) == Cardinality(Constructed(held, service)) + 1

\* global _x; if _x is None: _x = X(); return _x
get_global(held, accessor) ==
    LET instance == IF held[accessor] = 0
                    THEN construct(held, accessor.service)
                    ELSE held[accessor]
    IN  [held |-> [held EXCEPT ![accessor] = instance], ret |-> instance]

\* @lru_cache() def get_x(): return X()
get_cached(held, accessor) ==
    LET instance == IF held[accessor] = 0
                    THEN construct(held, accessor.service)
                    ELSE held[accessor]
    IN  [held |-> [held EXCEPT ![accessor] = instance], ret |-> instance]

-----------------------------------------------------------------------------
(* pipelines/ingest.py *)

ErrorResult(e, file_path, collection_type) ==
    [status |-> "error",
     file_path |-> file_path,
     error |-> ErrorMsg(e),
     collection_type |-> collection_type]

\* A pipeline that evicts as soon as the file has been read, before
\* extraction and embedding: what process_file must not be.
process_file_evicts_first(st, conn, file_path, collection_type, file, fault, failed) ==
    LET Fail(e, calls, st2, conn2) ==
            [store |-> st2, connected |-> conn2, calls |-> calls,
             result |-> ErrorResult(e, file_path, collection_type)]
    IN
    IF ~file.exists
    THEN Fail(Exc("FileNotFoundError", <<"File not found: ", file_path>>),
              <<>>, st, conn)
    ELSE IF fault = "read"
    THEN Fail(Exc("PermissionError", <<"Permission denied: ", file_path>>),
              <<>>, st, conn)
    ELSE
    LET filename == basename(file_path)
        pdf_uuid == upload_pdf_to_weaviate(file.bytes, filename, collection_type)
        c1 == << <<"process_file", "upload_pdf_to_weaviate">>,
                 <<"process_file", "delete_by_filename">> >>
        del == delete_by_filename(st, conn, filename, collection_type, fault)
    IN
    IF del.raised THEN Fail(del.exc, c1, del.store, del.connected)
    ELSE
    LET c2 == Append(c1, <<"process_file", "parse_pdf">>)
        parsed_data == parse_pdf(file_path, file, fault)
    IN
    IF parsed_data.raised
    THEN Fail(parsed_data.exc, c2, del.store, del.connected)
    ELSE
    LET text == parsed_data.text
        metadata == parsed_data.metadata
        c3 == Append(c2, <<"parse_pdf", "chunk_text">>)
    IN
    IF IsBlank(text)
    THEN [store |-> del.store, connected |-> del.connected, calls |-> c3,
          result |-> [status |-> "warning",
                      message |-> "No text content found in PDF",
                      file_path |-> file_path,
                      filename |-> metadata.filename,
                      pdf_uuid |-> pdf_uuid,
                      collection_type |-> collection_type]]
    ELSE
    LET chunks == chunk_text(text, INGEST_CHUNK_SIZE, INGEST_OVERLAP)
        c4 == c3 \o << <<"process_file", "chunk_text">>,
                       <<"process_file", "encode_batch">> >>
        enc == encode_batch(chunks, fault)
    IN
    IF enc.raised THEN Fail(enc.exc, c4, del.store, del.connected)
    ELSE
    LET c5 == Append(c4, <<"process_file", "add_document_chunks">>)
        add == add_document_chunks(del.store, del.connected, chunks,
                                   enc.embeddings, metadata, collection_type,
                                   fault, failed)
    IN
    IF add.raised THEN Fail(add.exc, c5, add.store, add.connected)
    ELSE [store |-> add.store, connected |-> add.connected, calls |-> c5,
          result |-> [status |-> "success",
                      file_path |-> file_path,
                      filename |-> metadata.filename,
                      chunks_count |-> Len(chunks),
                      pdf_uuid |-> pdf_uuid,
                      chunk_uuids |-> add.ret,
                      collection_type |-> collection_type]]

\* IngestionPipeline.process_file.  file is what the file system holds at
\* file_path, fault the stage an external collaborator fails at, failed the
\* batch positions the index rejects.  calls lists the calls made, in order.
process_file(st, conn, file_path, collection_type, file, fault, failed) ==
    LET Fail(e, calls, st2, conn2) ==
            [store |-> st2, connected |-> conn2, calls |-> calls,
             result |-> ErrorResult(e, file_path, collection_type)]
        c0 == <<>>
    IN
    IF ~file.exists
    THEN Fail(Exc("FileNotFoundError", <<"File not found: ", file_path>>),
              c0, st, conn)
    ELSE IF fault = "read"
    THEN Fail(Exc("PermissionError", <<"Permission denied: ", file_path>>),
              c0, st, conn)
    ELSE
    LET filename == basename(file_path)
        pdf_uuid == upload_pdf_to_weaviate(file.bytes, filename, collection_type)
        c1 == c0 \o << <<"process_file", "upload_pdf_to_weaviate">>,
                       <<"process_file", "parse_pdf">> >>
        parsed_data == parse_pdf(file_path, file, fault)
    IN
    IF parsed_data.raised THEN Fail(parsed_data.exc, c1, st, conn)
    ELSE
    LET text == parsed_data.text
        metadata == parsed_data.metadata
        c2 == Append(c1, <<"parse_pdf", "chunk_text">>)
    IN
    IF IsBlank(text)
    THEN [store |-> st, connected |-> conn, calls |-> c2,
          result |-> [status |-> "warning",
                      message |-> "No text content found in PDF",
                      file_path |-> file_path,
                      filename |-> metadata.filename,
                      pdf_uuid |-> pdf_uuid,
                      collection_type |-> collection_type]]
    ELSE
    LET chunks == chunk_text(text, INGEST_CHUNK_SIZE, INGEST_OVERLAP)
        c3 == c2 \o << <<"process_file", "chunk_text">>,
                       <<"process_file", "encode_batch">> >>
        enc == encode_batch(chunks, fault)
    IN
    IF enc.raised THEN Fail(enc.exc, c3, st, conn)
    ELSE
    LET c4 == Append(c3, <<"process_file", "delete_by_filename">>)
        del == delete_by_filename(st, conn, metadata.filename,
                                  collection_type, fault)
    IN
    IF del.raised THEN Fail(del.exc, c4, del.store, del.connected)
    ELSE
    LET c5 == Append(c4, <<"process_file", "add_document_chunks">>)
        add == add_document_chunks(del.store, del.connected, chunks,
                                   enc.embeddings, metadata, collection_type,
                                   fault, failed)
    IN
    IF add.raised THEN Fail(add.exc, c5, add.store, add.connected)
    ELSE [store |-> add.store, connected |-> add.connected, calls |-> c5,
          result |-> [status |-> "success",
                      file_path |-> file_path,
                      filename |-> metadata.filename,
                      chunks_count |-> Len(chunks),
                      pdf_uuid |-> pdf_uuid,
                      chunk_uuids |-> add.ret,
                      collection_type |-> collection_type]]

-----------------------------------------------------------------------------
(* routes/files.py *)

\* the names tempfile.NamedTemporaryFile(delete=False, suffix='.pdf') may
\* give the copy of an upload: a random name in the temporary directory
TempPaths == {"/tmp/tmpq3x8v1zk.pdf", "/tmp/tmp7h2m4c9d.pdf"}

\* file.filename.endswith('.pdf') or file.filename.endswith('.txt')
supported_name(filename) == filename \in {"a.pdf", "b.pdf"}

\* POST /upload/user.  filename is file.filename, temp_path the name the
\* temporary copy got, file what that copy holds
upload_user_document(st, conn, filename, temp_path, file, fault, failed) ==
    IF ~supported_name(filename)
    THEN [raised |-> TRUE,
          exc |-> HTTPException(400, <<"Only PDF and TXT files are supported">>),
          store |-> st, connected |-> conn]
    ELSE
    LET r == process_file(st, conn, temp_path, "user", file, fault, failed)
        result == r.result
    IN  IF result.status = "error"
        THEN [raised |-> TRUE, exc |-> HTTPException(500, result.error),
              store |-> r.store, connected |-> r.connected]
        ELSE [raised |-> FALSE,
              ret |-> [status |-> "success",
                       filename |-> filename,
                       message |-> "User document uploaded successfully",
                       details |->
                          [chunks_count |->
                              IF result.status = "success"
                              THEN Some(result.chunks_count) ELSE None,
                           pdf_uuid |-> result.pdf_uuid]],
              store |-> r.store, connected |-> r.connected]

summary_failed_status(batch_results) ==
    LET count(status) ==
            Cardinality({i \in DOMAIN batch_results :
                            batch_results[i].status = status})
    IN  [success_count |-> count("success"),
         error_count |-> count("failed"),
         warning_count |-> count("warning")]

\* the per-status counts process_batch computes and writes to the log
summary(batch_results) ==
    LET count(status) ==
            Cardinality({i \in DOMAIN batch_results :
                            batch_results[i].status = status})
    IN  [success_count |-> count("success"),
         error_count |-> count("error"),
         warning_count |-> count("warning")]

RECURSIVE batch_loop_stop_on_error(_, _, _, _, _, _, _, _)
batch_loop_stop_on_error(st, conn, file_paths, collection_type, scs, i, batch_results, trace) ==
    IF i > Len(file_paths)
       \/ (batch_results # <<>>
           /\ batch_results[Len(batch_results)].status = "error")
    THEN [store |-> st, connected |-> conn, results |-> batch_results,
          trace |-> trace]
    ELSE LET rest(r) ==
                 batch_loop_stop_on_error(
                     r.store, r.connected, file_paths, collection_type, scs,
                     i + 1, Append(batch_results, r.result),
                     trace \o << <<i, "process_batch", "process_file">> >>
                           \o [k \in DOMAIN r.calls |->
                                  <<i, r.calls[k][1], r.calls[k][2]>>])
         IN  rest(process_file(st, conn, file_paths[i], collection_type,
                               scs[i].file, scs[i].fault, scs[i].failed))

RECURSIVE batch_loop(_, _, _, _, _, _, _, _)
batch_loop(st, conn, file_paths, collection_type, scs, i, batch_results, trace) ==
    IF i > Len(file_paths)
    THEN [store |-> st, connected |-> conn, results |-> batch_results,
          trace |-> trace]
    ELSE LET rest(r) ==
                 batch_loop(
                     r.store, r.connected, file_paths, collection_type, scs,
                     i + 1, Append(batch_results, r.result),
                     trace \o << <<i, "process_batch", "process_file">> >>
                           \o [k \in DOMAIN r.calls |->
                                  <<i, r.calls[k][1], r.calls[k][2]>>])
         IN  rest(process_file(st, conn, file_paths[i], collection_type,
                               scs[i].file, scs[i].fault, scs[i].failed))

\* IngestionPipeline.process_batch: returned lists the values handed back to
\* the caller (one, the list of results), logged is what goes to the log
process_batch(st, conn, file_paths, collection_type, scs) ==
    LET finish(b) ==
            [store |-> b.store, connected |-> b.connected, trace |-> b.trace,
             logged |-> summary(b.results),
             returned |-> <<b.results>>]
    IN  finish(batch_loop(st, conn, file_paths, collection_type, scs, 1,
                          <<>>, <<>>))

-----------------------------------------------------------------------------
(* The environment: files the pipeline is pointed at, faults of the          *)
(* collaborators                                                            *)

EmptyText == <<>>
BlankText == Concat(Str(" ", 1), Str("\n", 1))
ShortText == Str("a", ShortLen)
LongText ==
    Concat(Concat(Str("a", 1000), Str("b", 650)),
           Concat(Str("X", 1), Str("b", LongLen - 1651)))

EmptyFile == FileOf("empty-pdf", EmptyText)
BlankFile == FileOf("blank-pdf", BlankText)
ShortFile == FileOf("short-pdf", ShortText)
LongFile == FileOf("long-pdf", LongText)

Faults == {"none", "read", "parse", "embed", "connect", "delete", "add"}

Scenario(file, fault, failed) ==
    [file |-> file, fault |-> fault, failed |-> failed]

FailedSets(n) ==
    {F \in SUBSET (0..(n - 1)) : F # {} /\ Cardinality(F) <= MaxFailed}

\* what may happen when the pipeline is pointed at a path: the faults and the
\* long document are exercised on /in/a.pdf in the user collection
ScenariosOf(path, collection_type) ==
    IF path = "/in/a.pdf" /\ collection_type = "user"
    THEN {Scenario(NoFile, "none", {})}
         \cup {Scenario(f, "none", {}) :
                  f \in {EmptyFile, BlankFile, ShortFile, LongFile}}
         \cup {Scenario(ShortFile, ft, {}) : ft \in Faults \ {"none"}}
         \cup {Scenario(LongFile, "none", F) : F \in FailedSets(3)}
    ELSE {Scenario(NoFile, "none", {}), Scenario(BlankFile, "none", {}),
          Scenario(ShortFile, "none", {})}

\* what the store specification ingests: documents of one and three chunks,
\* a blank one, a failed insertion and a partly rejected batch
StoreScenariosOf(path, collection_type) ==
    IF path = "/in/a.pdf" /\ collection_type = "user"
    THEN {Scenario(BlankFile, "none", {}), Scenario(ShortFile, "none", {}),
          Scenario(LongFile, "none", {}), Scenario(ShortFile, "add", {}),
          Scenario(LongFile, "none", {0})}
    ELSE {Scenario(ShortFile, "none", {})}

\* what may happen to one file of a batch
BatchScenariosOf(path, collection_type) ==
    IF path = "/in/a.pdf" /\ collection_type = "user"
    THEN {Scenario(NoFile, "none", {}), Scenario(BlankFile, "none", {}),
          Scenario(ShortFile, "none", {})}
    ELSE {Scenario(ShortFile, "none", {})}

TargetScenariosOf(path, collection_type) ==
    IF path = "/in/a.pdf" /\ collection_type = "user"
    THEN {Scenario(LongFile, "none", {})}
    ELSE {}

\* a document of exactly two chunks under the ingestion sizes
TwoChunkText == Concat(Str("c", 1000), Str("d", 200))
TwoChunkFile == FileOf("two-chunk-pdf", TwoChunkText)

\* the comparison specification holds a user document in a.pdf and a
\* checklist template in b.pdf
CompareScenariosOf(path, collection_type) ==
    IF path = "/in/a.pdf" /\ collection_type = "user"
    THEN {Scenario(ShortFile, "none", {}), Scenario(LongFile, "none", {})}
    ELSE IF path = "/in/b.pdf" /\ collection_type = "checklist"
    THEN {Scenario(ShortFile, "none", {}), Scenario(TwoChunkFile, "none", {})}
    ELSE {}

RECURSIVE FromChars(_)
\* the string made of the characters cs
FromChars(cs) ==
    IF cs = <<>> THEN <<>>
    ELSE Concat(Str(cs[1], 1), FromChars(Tail(cs)))

\* the texts put to chunk_text on its own: every string of a's and b's up
\* to MaxTextLen characters
ChunkTexts ==
    {FromChars(cs) : cs \in UNION {[1..n -> {"a", "b"}] : n \in 0..MaxTextLen}}

\* the catalogue of questions and conditions that is edited
QuestionTexts == {"Who signed?", "Who approved?"}
ConditionTexts == {"must mention X", "must be dated"}

\* the ids a request may name: every uuid4 handed out so far and one that
\* was never handed out
RequestIds == {[uuid4 |-> n] : n \in 1..nextId}

IdSeqs(most) == UNION {[1..n -> RequestIds] : n \in 0..most}

\* the processes that ingest at the same time
Callers == {1, 2}

\* a caller that is not inside process_file
Idle ==
    [pc |-> "idle", file_path |-> "", collection_type |-> "",
     chunks |-> <<>>, embeddings |-> <<>>, connected |-> FALSE]

\* the documents ingested at the same time: of one, two and three chunks
RacingFiles == {ShortFile, TwoChunkFile, LongFile}

BigFilename == "big.pdf"

\* the chunks of an n-chunk document, chunk i being i characters long
BigChunkList(n) == [i \in 1..n |-> Str("x", i)]

\* the read specification reconstructs short and three-chunk documents
ReadScenariosOf(path, collection_type) ==
    IF path = "/in/a.pdf" /\ collection_type = "user"
    THEN {Scenario(LongFile, "none", {}), Scenario(ShortFile, "none", {})}
    ELSE {}

Identity(n) == [i \in 1..n |-> i]
Rotation(n) == [i \in 1..n |-> (i % n) + 1]

\* the orders the index may hand n matching objects out in: every order for
\* a small document, two of them for a large one
Orders(n) ==
    IF n <= MaxPermute
    THEN {f \in [1..n -> 1..n] : \A i, j \in 1..n : f[i] = f[j] => i = j}
    ELSE {Identity(n), Rotation(n)}

Matching(name, filename) ==
    Len(SelectSeq(store[name], LAMBDA o : o.filename = filename))

Question1 == [id |-> [qid |-> 1], question |-> "Who signed?", context |-> None]
Condition1 == [id |-> [cid |-> 1], condition |-> "must mention X",
               context |-> None]
Condition2 == [id |-> [cid |-> 2], condition |-> "must be dated",
               context |-> None]

NewTemplates ==
    {[id |-> None, name |-> "empty", questions |-> <<>>, conditions |-> <<>>],
     [id |-> None, name |-> "one", questions |-> <<Question1>>,
      conditions |-> <<Condition1>>],
     [id |-> None, name |-> "two", questions |-> <<>>,
      conditions |-> <<Condition1, Condition2>>]}

ApiError == [kind |-> "api_error", message |-> "overloaded"]
PlainText == [kind |-> "text", text |-> "I cannot tell"]

JsonAnswer ==
    [kind |-> "json",
     value |-> [answer |-> <<"the director">>, confidence |-> "high",
                evidence |-> "page 1", explanation |-> <<"signature block">>]]

\* a completion that is a JSON object with the given is_met value
JsonEvaluation(is_met) ==
    [kind |-> "json",
     value |-> [is_met |-> is_met, confidence |-> "high",
                evidence |-> "page 2", reasoning |-> <<"found">>,
                recommendations |-> ""]]

\* a completion that is a JSON object without the is_met key
JsonNoVerdict ==
    [kind |-> "json",
     value |-> [confidence |-> "low", evidence |-> "",
                reasoning |-> <<"unclear">>, recommendations |-> ""]]

\* a completion that is valid JSON but not an object
JsonOther(pytype) == [kind |-> "json", value |-> NonDict(pytype)]

\* completions that follow the format the prompt asks for, or fail
QuestionResponses == {ApiError, PlainText, JsonAnswer}

ConditionResponses ==
    {ApiError, PlainText} \cup {JsonEvaluation(PyBool(m)) : m \in BOOLEAN}

\* a completion that json.loads rejects as a whole but that holds a fenced
\* code block, with a language tag or (tag = "") without, whose contents are
\* the JSON value
FencedJson(tag, value) ==
    [kind |-> "fenced", tag |-> tag, value |-> value,
     text |-> <<"Here is the result: ", "[fence]", tag, " {...} ", "[fence]">>]

FencedQuestionResponses ==
    {FencedJson(tag, JsonAnswer.value) : tag \in {"", "json"}}

FencedConditionResponses ==
    {FencedJson(tag, JsonEvaluation(PyBool(TRUE)).value) : tag \in {"", "json"}}

\* whatever a completion may be
AnyQuestionResponses == QuestionResponses \cup {JsonOther("list")}

AnyConditionResponses ==
    ConditionResponses
    \cup {JsonEvaluation(PyStr("false")), JsonEvaluation(PyStr("unsure")),
          JsonNoVerdict, JsonOther("str")}

\* a completion that is a JSON object with a compliance verdict
JsonCompliance(compliant) ==
    [kind |-> "json",
     value |-> [compliant |-> PyBool(compliant),
                reason |-> <<"stated in section 2">>, confidence |-> 1]]

ComplianceResponses ==
    {ApiError, PlainText} \cup {JsonCompliance(c) : c \in BOOLEAN}

TopKs == {1, 5}

\* the questions and conditions a batch is called with
QuestionItems(n) ==
    [i \in 1..n |-> [id |-> [qid |-> i], question |-> <<"question ", ToString(i)>>,
                     context |-> None]]
ConditionItems(n) ==
    [i \in 1..n |-> [id |-> [cid |-> i], condition |-> <<"condition ", ToString(i)>>,
                     context |-> None]]

PathSeqs == UNION {[1..n -> Paths] : n \in 0..MaxBatch}

\* a connection that is open cannot fail to open
Applicable(sc) == sc.fault = "connect" => ~connected

-----------------------------------------------------------------------------
(* State machine *)

EmptyStore == [name \in CollectionNames |-> <<>>]

Init ==
    /\ store = EmptyStore
    /\ connected = FALSE
    /\ templates = <<>>
    /\ results = <<>>
    /\ nextId = 1
    /\ last = [op |-> "start"]
    /\ handles = [a \in Accessors |-> 0]
    /\ questions_file = <<>>
    /\ conditions_file = <<>>
    /\ ingestions = [caller \in Callers |-> Idle]

\* a caller runs IngestionPipeline.process_file on a file of the given kind
ProcessFileFrom(scenarios) ==
    \E file_path \in Paths, collection_type \in CollectionTypes :
      \E sc \in scenarios[<<file_path, collection_type>>] :
        /\ Applicable(sc)
        /\ LET r == process_file(store, connected, file_path, collection_type,
                                 sc.file, sc.fault, sc.failed)
           IN  /\ store' = r.store
               /\ connected' = r.connected
               /\ last' = [op |-> "process_file",
                           file_path |-> file_path,
                           collection_type |-> collection_type,
                           scenario |-> sc,
                           result |-> r.result,
                           calls |-> r.calls,
                           previous |->
                               IF /\ last.op = "process_file"
                                  /\ last.file_path = file_path
                                  /\ last.collection_type = collection_type
                                  /\ last.scenario.file = sc.file
                               THEN last.result.status
                               ELSE "other"]
        /\ UNCHANGED <<templates, results, nextId, handles, questions_file, conditions_file, ingestions>>

ProcessFile == ProcessFileFrom([pc \in Paths \X CollectionTypes |->
                        ScenariosOf(pc[1], pc[2])])

\* the ingestion of the three-chunk document as the target /in/a.pdf
IngestTarget == ProcessFileFrom([pc \in Paths \X CollectionTypes |->
                        TargetScenariosOf(pc[1], pc[2])])

\* a caller runs WeaviateService.delete_by_filename (routes/files.py)
DeleteByFilename ==
    \E filename \in Filenames, collection_type \in CollectionTypes,
       fault \in {"none", "connect", "delete"} :
        /\ fault = "connect" => ~connected
        /\ LET r == delete_by_filename(store, connected, filename,
                                       collection_type, fault)
           IN  /\ store' = r.store
               /\ connected' = r.connected
               /\ last' = [op |-> "delete_by_filename",
                           filename |-> filename,
                           collection_type |-> collection_type,
                           raised |-> r.raised,
                           ret |-> IF r.raised THEN r.exc ELSE r.ret]
        /\ UNCHANGED <<templates, results, nextId, handles, questions_file, conditions_file, ingestions>>

\* a caller runs IngestionPipeline.process_batch
ProcessBatch ==
    \E file_paths \in PathSeqs, collection_type \in CollectionTypes :
      \E scs \in [DOMAIN file_paths ->
                    UNION {BatchScenariosOf(p, collection_type) : p \in Paths}] :
        /\ \A i \in DOMAIN file_paths :
              scs[i] \in BatchScenariosOf(file_paths[i], collection_type)
        /\ LET step(r) ==
                   /\ store' = r.store
                   /\ connected' = r.connected
                   /\ last' = [op |-> "process_batch",
                               file_paths |-> file_paths,
                               collection_type |-> collection_type,
                               scenarios |-> scs,
                               trace |-> r.trace,
                               logged |-> r.logged,
                               returned |-> r.returned]
           IN  step(process_batch(store, connected, file_paths,
                                  collection_type, scs))
        /\ UNCHANGED <<templates, results, nextId, handles, questions_file, conditions_file, ingestions>>

\* a caller runs WeaviateService.clear_all
ClearAll ==
    \E collection_type \in CollectionTypes, fault \in {"none", "connect"} :
        /\ fault = "connect" => ~connected
        /\ LET r == clear_all(store, connected, collection_type, fault)
           IN  /\ store' = r.store
               /\ connected' = r.connected
               /\ last' = [op |-> "clear_all",
                           collection_type |-> collection_type,
                           raised |-> r.raised]
        /\ UNCHANGED <<templates, results, nextId, handles, questions_file, conditions_file, ingestions>>

DirectChunks == <<Str("c", 1), Str("d", 2)>>

\* a caller runs WeaviateService.add_document_chunks on its own
AddDocumentChunks ==
    \E filename \in Filenames, collection_type \in CollectionTypes,
       fault \in {"none", "add"}, failed \in {{}, {0}} :
        /\ Len(store[collection_name(collection_type)]) < MaxDirect
        /\ LET chunks == DirectChunks
               r == add_document_chunks(store, connected, chunks,
                                        encode_batch(chunks, "none").embeddings,
                                        [filename |-> filename],
                                        collection_type, fault, failed)
           IN  /\ store' = r.store
               /\ connected' = r.connected
               /\ last' = [op |-> "add_document_chunks",
                           filename |-> filename,
                           collection_type |-> collection_type,
                           raised |-> r.raised]
        /\ UNCHANGED <<templates, results, nextId, handles, questions_file, conditions_file, ingestions>>

\* a caller stores an n-chunk document with add_document_chunks
AddChunkedDocument(n) ==
    /\ Matching(USER_DOCUMENT_COLLECTION, BigFilename) = 0
    /\ LET r == add_document_chunks(store, connected, BigChunkList(n),
                                    encode_batch(BigChunkList(n), "none").embeddings,
                                    [filename |-> BigFilename], "user",
                                    "none", {})
       IN  /\ store' = r.store
           /\ connected' = r.connected
           /\ last' = [op |-> "add_document_chunks",
                       filename |-> BigFilename,
                       collection_type |-> "user",
                       raised |-> r.raised]
    /\ UNCHANGED <<templates, results, nextId, handles, questions_file, conditions_file, ingestions>>

\* the smallest document with more chunks than run_checklist fetches
AddLargeDocument == AddChunkedDocument(RUN_FETCH_LIMIT + 1)

\* the smallest document with more chunks than get_document_content fetches
AddHugeDocument == AddChunkedDocument(CONTENT_FETCH_LIMIT + 1)

\* the ingestions the store specification draws from
IngestForStore == ProcessFileFrom([pc \in Paths \X CollectionTypes |->
                        StoreScenariosOf(pc[1], pc[2])])

\* the ingestions the read specification draws from
IngestForRead == ProcessFileFrom([pc \in Paths \X CollectionTypes |->
                        ReadScenariosOf(pc[1], pc[2])])

\* a caller runs WeaviateService.get_document_content
GetDocumentContent ==
    \E filename \in Filenames \cup {BigFilename},
       collection_type \in CollectionTypes, fault \in {"none", "connect"} :
      \E order \in Orders(Matching(collection_name(collection_type), filename)) :
        /\ fault = "connect" => ~connected
        /\ LET r == get_document_content(store, connected, filename,
                                         collection_type, fault, order)
           IN  /\ connected' = r.connected
               /\ last' = [op |-> "get_document_content",
                           filename |-> filename,
                           collection_type |-> collection_type,
                           order |-> order,
                           raised |-> r.raised,
                           ret |-> IF r.raised THEN r.exc ELSE r.ret]
        /\ UNCHANGED <<store, templates, results, nextId, handles, questions_file, conditions_file, ingestions>>

\* POST /templates reaches StorageService.create_template
CreateTemplate ==
    \E template \in NewTemplates :
        /\ Len(templates) < MaxTemplates
        /\ LET r == create_template(templates, nextId, template)
           IN  /\ templates' = r.templates
               /\ nextId' = r.nextId
               /\ last' = [op |-> "create_template", ret |-> r.ret]
        /\ UNCHANGED <<store, connected, results, handles, questions_file, conditions_file, ingestions>>

\* POST /run, the completions drawn from the given sets
RunChecklistFrom(question_responses, condition_responses) ==
    \E checklist_id \in {templates[i].id : i \in DOMAIN templates}
                          \cup {[uuid4 |-> 0]},
       document_filename \in {"a.pdf", BigFilename},
       fault \in {"none", "fetch"} :
      \E order \in Orders(Matching(USER_DOCUMENT_COLLECTION, document_filename)) :
        LET template == get_template(templates, checklist_id)
            nq == IF template = None THEN 0 ELSE Len(template.questions)
            nc == IF template = None THEN 0 ELSE Len(template.conditions)
            request == [checklist_id |-> checklist_id,
                        document_filename |-> document_filename]
        IN  \E q_responses \in [1..nq -> question_responses],
               c_responses \in [1..nc -> condition_responses] :
              /\ Len(results) < MaxResults
              /\ LET r == run_checklist(store, connected, templates, results,
                                        nextId, request, fault, order,
                                        q_responses, c_responses)
                 IN  /\ results' = r.results
                     /\ nextId' = r.nextId
                     /\ last' = [op |-> "run_checklist",
                                 request |-> request,
                                 fault |-> fault,
                                 order |-> order,
                                 raised |-> r.raised,
                                 ret |-> IF r.raised THEN r.exc ELSE r.ret,
                                 llm_calls |-> r.llm_calls]
              /\ UNCHANGED <<store, connected, templates, handles, questions_file, conditions_file, ingestions>>

RunChecklist == RunChecklistFrom(QuestionResponses, ConditionResponses)

RunChecklistAnyResponse ==
    RunChecklistFrom(AnyQuestionResponses, AnyConditionResponses)

\* a caller runs ClaudeService.extract_information
ExtractInformation ==
    \E document_content \in {ShortText, LongText},
       response \in AnyQuestionResponses \cup FencedQuestionResponses :
        /\ last' = [op |-> "extract_information",
                    response |-> response,
                    raised |-> FALSE,
                    ret |-> extract_information(document_content,
                                                <<"question ", "1">>, None,
                                                response)]
        /\ UNCHANGED <<store, connected, templates, results, nextId, handles, questions_file, conditions_file, ingestions>>

\* a caller runs ClaudeService.evaluate_condition
EvaluateCondition ==
    \E document_content \in {ShortText, LongText},
       response \in AnyConditionResponses \cup FencedConditionResponses :
        /\ last' = [op |-> "evaluate_condition",
                    response |-> response,
                    raised |-> FALSE,
                    ret |-> evaluate_condition(document_content,
                                               <<"condition ", "1">>, None,
                                               response)]
        /\ UNCHANGED <<store, connected, templates, results, nextId, handles, questions_file, conditions_file, ingestions>>

\* a caller runs ClaudeService.batch_extract
BatchExtract ==
    \E document_content \in {ShortText, LongText}, n \in 0..MaxItems :
      \E responses \in [1..n -> AnyQuestionResponses] :
        LET step(r) ==
                last' = [op |-> "batch_extract",
                         items |-> QuestionItems(n),
                         responses |-> responses,
                         raised |-> r.raised,
                         ret |-> IF r.raised THEN r.exc ELSE r.results,
                         llm_calls |-> r.llm_calls]
        IN  /\ step(batch_extract(document_content, QuestionItems(n),
                                  responses))
            /\ UNCHANGED <<store, connected, templates, results, nextId, handles, questions_file, conditions_file, ingestions>>

\* a caller runs ClaudeService.batch_evaluate
BatchEvaluate ==
    \E document_content \in {ShortText, LongText}, n \in 0..MaxItems :
      \E responses \in [1..n -> AnyConditionResponses] :
        LET step(r) ==
                last' = [op |-> "batch_evaluate",
                         items |-> ConditionItems(n),
                         responses |-> responses,
                         raised |-> r.raised,
                         ret |-> IF r.raised THEN r.exc ELSE r.results,
                         llm_calls |-> r.llm_calls]
        IN  /\ step(batch_evaluate(document_content, ConditionItems(n),
                                   responses))
            /\ UNCHANGED <<store, connected, templates, results, nextId, handles, questions_file, conditions_file, ingestions>>

Next ==
    \/ ProcessFile
    \/ DeleteByFilename

\* the ingestion pipeline and the delete routes
Spec == Init /\ [][Next]_vars

\* the names a client may give an upload
UploadNames == Filenames \cup {"a.docx"}

\* a client posts a file to /upload/user
UploadUserDocument ==
    \E filename \in UploadNames, temp_path \in TempPaths,
       file \in {BlankFile, ShortFile, TwoChunkFile},
       fault \in {"none", "embed"} :
        /\ LET r == upload_user_document(store, connected, filename, temp_path,
                                         file, fault, {})
           IN  /\ store' = r.store
               /\ connected' = r.connected
               /\ last' = [op |-> "upload_user_document",
                           filename |-> filename,
                           temp_path |-> temp_path,
                           file |-> file,
                           raised |-> r.raised,
                           ret |-> IF r.raised THEN r.exc ELSE r.ret]
        /\ UNCHANGED <<templates, results, nextId, handles, questions_file, conditions_file, ingestions>>

NextUpload ==
    \/ UploadUserDocument
    \/ GetDocumentContent
    \/ DeleteByFilename

\* uploads, and the operations keyed by the uploaded filename
SpecUpload == Init /\ [][NextUpload]_vars

\* the server process starts again: the services are constructed anew
\* (client None, _initialized False), while the index and the JSON files of
\* the storage service keep what was written
StartProcess ==
    /\ connected' = FALSE
    /\ handles' = [a \in Accessors |-> 0]
    /\ last' = [op |-> "start_process"]
    /\ UNCHANGED <<store, templates, results, nextId, questions_file, conditions_file, ingestions>>

NextConnect ==
    \/ StartProcess
    \/ CreateTemplate
    \/ IngestTarget
    \/ GetDocumentContent
    \/ DeleteByFilename
    \/ RunChecklist

\* the operations on the index, in any order, in a process that may restart
SpecConnect == Init /\ [][NextConnect]_vars

NextStore ==
    \/ IngestForStore
    \/ AddDocumentChunks
    \/ DeleteByFilename
    \/ ClearAll

\* every operation that writes the index, called in any order
SpecStore == Init /\ [][NextStore]_vars

NextRead ==
    \/ IngestForRead
    \/ DeleteByFilename
    \/ AddHugeDocument
    \/ GetDocumentContent

\* ingestion, deletion and document reconstruction
SpecRead == Init /\ [][NextRead]_vars

NextRun ==
    \/ CreateTemplate
    \/ IngestTarget
    \/ AddLargeDocument
    \/ RunChecklist

\* checklist runs against ingested target documents
SpecRun == Init /\ [][NextRun]_vars

NextComply ==
    \/ CreateTemplate
    \/ IngestTarget
    \/ RunChecklistAnyResponse

\* checklist runs whose completions may be anything
SpecComply == Init /\ [][NextComply]_vars

IngestForCompare == ProcessFileFrom([pc \in Paths \X CollectionTypes |->
                        CompareScenariosOf(pc[1], pc[2])])

\* WeaviateService.search called as routes/rag.py calls it
Search ==
    \E question \in {ShortText, LongText}, top_k \in TopKs :
      \E fault \in {"none", "connect"} :
        /\ fault = "connect" => ~connected
        /\ LET r == search(store, connected,
                           <<Kw("query_vector", Vec(question)),
                             Kw("limit", top_k),
                             Kw("collection_type", "user")>>, fault)
           IN  /\ connected' = r.connected
               /\ last' = [op |-> "search", limit |-> top_k,
                           query_vector |-> Vec(question),
                           raised |-> r.raised,
                           ret |-> IF r.raised THEN <<>> ELSE r.ret]
        /\ UNCHANGED <<store, templates, results, nextId, handles, questions_file, conditions_file, ingestions>>

\* ChecklistComparisonService._check_item_compliance on one checklist item
CheckItemCompliance ==
    \E user_filename \in Filenames, top_k \in TopKs :
      \E content \in {ShortText, LongText}, response \in ComplianceResponses :
        \E fault \in {"none", "connect"} :
          /\ fault = "connect" => ~connected
          /\ LET r == check_item_compliance(
                          store, connected, user_filename,
                          [content |-> content, chunk_index |-> 0], top_k,
                          fault, response)
             IN  /\ connected' = r.connected
                 /\ last' = [op |-> "check_item_compliance",
                             user_filename |-> user_filename,
                             content |-> content,
                             matches |->
                                Matching(USER_DOCUMENT_COLLECTION, user_filename),
                             ret |-> r.item,
                             llm_calls |-> r.llm_calls]
          /\ UNCHANGED <<store, templates, results, nextId, handles, questions_file, conditions_file, ingestions>>

\* ChecklistComparisonService.compare_document_with_checklist
Compare ==
    \E user_filename \in Filenames, checklist_filename \in Filenames :
      \E top_k \in TopKs, fault \in {"none", "connect"} :
        \E responses \in [1..Matching(CHECKLIST_COLLECTION, checklist_filename)
                            -> ComplianceResponses] :
          /\ fault = "connect" => ~connected
          /\ LET r == compare_document_with_checklist(
                          store, connected, user_filename, checklist_filename,
                          top_k, fault, responses)
             IN  /\ connected' = r.connected
                 /\ last' = [op |-> "compare_document_with_checklist",
                             user_filename |-> user_filename,
                             checklist_filename |-> checklist_filename,
                             chunks |-> Matching(CHECKLIST_COLLECTION,
                                                 checklist_filename),
                             ret |-> r.ret,
                             llm_calls |-> r.llm_calls]
          /\ UNCHANGED <<store, templates, results, nextId, handles, questions_file, conditions_file, ingestions>>

NextCompare ==
    \/ IngestForCompare
    \/ Search
    \/ CheckItemCompliance
    \/ Compare

\* the retrieval comparison over ingested documents
SpecCompare == Init /\ [][NextCompare]_vars

\* a component asks a module-level accessor for its service
GetGlobal ==
    \E accessor \in GlobalAccessors :
        /\ LET r == get_global(handles, accessor)
           IN  /\ handles' = r.held
               /\ last' = [op |-> "get_handle", accessor |-> accessor,
                           before |-> handles[accessor], ret |-> r.ret]
        /\ UNCHANGED <<store, connected, templates, results, nextId, questions_file, conditions_file, ingestions>>

\* a route asks a dependencies.py accessor for its service
GetCached ==
    \E accessor \in CachedAccessors :
        /\ LET r == get_cached(handles, accessor)
           IN  /\ handles' = r.held
               /\ last' = [op |-> "get_handle", accessor |-> accessor,
                           before |-> handles[accessor], ret |-> r.ret]
        /\ UNCHANGED <<store, connected, templates, results, nextId, questions_file, conditions_file, ingestions>>

NextHandles ==
    \/ GetGlobal
    \/ GetCached

\* the service handles of one process
SpecHandles == Init /\ [][NextHandles]_vars

\* DocumentParser.chunk_text called on its own, twice with the same
\* arguments
ChunkText ==
    \E text \in ChunkTexts, size \in 1..MaxSize, overlap \in 0..MaxSize :
        /\ last' = IF chunk_text_terminates(text, size, overlap)
                   THEN [op |-> "chunk_text", text |-> text, size |-> size,
                         overlap |-> overlap, outcome |-> "returned",
                         chunks |-> chunk_text(text, size, overlap),
                         again |-> chunk_text(text, size, overlap)]
                   ELSE [op |-> "chunk_text", text |-> text, size |-> size,
                         overlap |-> overlap, outcome |-> Diverges,
                         chunks |-> <<>>, again |-> <<>>]
        /\ UNCHANGED <<store, connected, templates, results, nextId, handles, questions_file, conditions_file, ingestions>>

NextChunk == ChunkText

\* the chunker on its own
SpecChunk == Init /\ [][NextChunk]_vars

\* the route create_question
CreateQuestion ==
    \E text \in QuestionTexts :
        /\ nextId <= MaxIds
        /\ LET r == create_question(questions_file, nextId,
                                    [id |-> None, question |-> text,
                                     context |-> None])
           IN  /\ questions_file' = r.file
               /\ nextId' = r.nextId
               /\ last' = [op |-> "create_question", ret |-> r.ret]
        /\ UNCHANGED <<store, connected, templates, results, handles, conditions_file, ingestions>>

\* the route update_question
UpdateQuestion ==
    \E question_id \in RequestIds, text \in QuestionTexts :
        /\ LET r == update_question(questions_file, question_id,
                                    [question |-> text])
           IN  /\ questions_file' = r.file
               /\ last' = [op |-> "update_question",
                           question_id |-> question_id,
                           ret |-> IF r.ret = None
                                   THEN HTTPException(404, "Question not found")
                                   ELSE r.ret]
        /\ UNCHANGED <<store, connected, templates, results, nextId, handles, conditions_file, ingestions>>

\* the route delete_question
DeleteQuestion ==
    \E question_id \in RequestIds :
        /\ LET r == delete_question(questions_file, question_id)
           IN  /\ questions_file' = r.file
               /\ last' = [op |-> "delete_question",
                           question_id |-> question_id, ret |-> r.ret]
        /\ UNCHANGED <<store, connected, templates, results, nextId, handles, conditions_file, ingestions>>

\* the route create_condition
CreateCondition ==
    \E text \in ConditionTexts :
        /\ nextId <= MaxIds
        /\ LET r == create_condition(conditions_file, nextId,
                                     [id |-> None, condition |-> text,
                                      context |-> None])
           IN  /\ conditions_file' = r.file
               /\ nextId' = r.nextId
               /\ last' = [op |-> "create_condition", ret |-> r.ret]
        /\ UNCHANGED <<store, connected, templates, results, handles, questions_file, ingestions>>

\* the route update_condition
UpdateCondition ==
    \E condition_id \in RequestIds, text \in ConditionTexts :
        /\ LET r == update_condition(conditions_file, condition_id,
                                     [condition |-> text])
           IN  /\ conditions_file' = r.file
               /\ last' = [op |-> "update_condition",
                           condition_id |-> condition_id,
                           ret |-> IF r.ret = None
                                   THEN HTTPException(404, "Condition not found")
                                   ELSE r.ret]
        /\ UNCHANGED <<store, connected, templates, results, nextId, handles, questions_file, ingestions>>

\* the route delete_condition
DeleteCondition ==
    \E condition_id \in RequestIds :
        /\ LET r == delete_condition(conditions_file, condition_id)
           IN  /\ conditions_file' = r.file
               /\ last' = [op |-> "delete_condition",
                           condition_id |-> condition_id, ret |-> r.ret]
        /\ UNCHANGED <<store, connected, templates, results, nextId, handles, questions_file, ingestions>>

\* the route create_template on a request that names ids
CreateTemplateFromIds ==
    \E question_ids \in IdSeqs(MaxRequestIds), condition_ids \in IdSeqs(1) :
        /\ Len(templates) < MaxTemplates
        /\ nextId <= MaxIds
        /\ LET request == [name |-> "review", question_ids |-> question_ids,
                           condition_ids |-> condition_ids]
               r == create_template_route(questions_file, conditions_file,
                                          templates, nextId, request)
           IN  /\ templates' = r.templates
               /\ nextId' = r.nextId
               /\ last' = [op |-> "create_template_route",
                           request |-> request, ret |-> r.ret]
        /\ UNCHANGED <<store, connected, results, handles, questions_file, conditions_file, ingestions>>

NextTemplates ==
    \/ CreateQuestion
    \/ UpdateQuestion
    \/ DeleteQuestion
    \/ CreateCondition
    \/ UpdateCondition
    \/ DeleteCondition
    \/ CreateTemplateFromIds

\* the catalogue of questions and conditions and the templates made from it
SpecTemplates == Init /\ [][NextTemplates]_vars

\* process_file of one caller up to the embeddings (steps 1 to 4): nothing
\* of the index has been changed yet
Prepare(caller) ==
    \E file_path \in Paths, collection_type \in CollectionTypes :
      \E file \in RacingFiles :
        /\ ingestions[caller].pc = "idle"
        /\ LET parsed_data == parse_pdf(file_path, file, "none")
               chunks == chunk_text(parsed_data.text, INGEST_CHUNK_SIZE,
                                    INGEST_OVERLAP)
               enc == encode_batch(chunks, "none")
           IN  ingestions' =
                 [ingestions EXCEPT ![caller] =
                     [pc |-> "embedded", file_path |-> file_path,
                      collection_type |-> collection_type,
                      chunks |-> chunks, embeddings |-> enc.embeddings,
                      connected |-> @.connected]]
        /\ last' = [op |-> "process_file_step", caller |-> caller,
                    step |-> "encode_batch"]
        /\ UNCHANGED <<store, connected, templates, results, nextId, handles, questions_file, conditions_file>>

\* process_file of one caller: the delete_by_filename call of step 5
Evict(caller) ==
    /\ ingestions[caller].pc = "embedded"
    /\ LET ing == ingestions[caller]
           del == delete_by_filename(store, ing.connected,
                                     basename(ing.file_path),
                                     ing.collection_type, "none")
       IN  /\ store' = del.store
           /\ ingestions' = [ingestions EXCEPT ![caller].pc = "evicted",
                                               ![caller].connected =
                                                   del.connected]
    /\ last' = [op |-> "process_file_step", caller |-> caller,
                step |-> "delete_by_filename"]
    /\ UNCHANGED <<connected, templates, results, nextId, handles, questions_file, conditions_file>>

\* process_file of one caller: the add_document_chunks call of step 5, after
\* which the call returns success
Insert(caller) ==
    /\ ingestions[caller].pc = "evicted"
    /\ LET ing == ingestions[caller]
           add == add_document_chunks(
                      store, ing.connected, ing.chunks, ing.embeddings,
                      [filename |-> basename(ing.file_path),
                       file_path |-> ing.file_path],
                      ing.collection_type, "none", {})
       IN  /\ store' = add.store
           /\ ingestions' = [ingestions EXCEPT ![caller].pc = "done",
                                               ![caller].connected =
                                                   add.connected]
    /\ last' = [op |-> "process_file_step", caller |-> caller,
                step |-> "add_document_chunks"]
    /\ UNCHANGED <<connected, templates, results, nextId, handles, questions_file, conditions_file>>

NextRace ==
    \/ \E caller \in Callers : Prepare(caller)
    \/ \E caller \in Callers : Evict(caller)
    \/ \E caller \in Callers : Insert(caller)

\* two callers inside process_file at the same time
SpecRace == Init /\ [][NextRace]_vars

NextJudge ==
    \/ ExtractInformation
    \/ EvaluateCondition
    \/ BatchExtract
    \/ BatchEvaluate

\* the judgment engine called on its own
SpecJudge == Init /\ [][NextJudge]_vars

NextBatch ==
    \/ ProcessBatch
    \/ DeleteByFilename

\* batch ingestion and the delete routes
SpecBatch == Init /\ [][NextBatch]_vars

-----------------------------------------------------------------------------
(* Vocabulary of the properties *)

\* the collection a collection type selects, and the other one
CollectionOf(collection_type) ==
    IF collection_type = "checklist" THEN "ChecklistTemplates"
    ELSE "UserDocuments"

OtherCollection(collection_type) ==
    IF collection_type = "checklist" THEN "UserDocuments"
    ELSE "ChecklistTemplates"

\* the chunks a collection holds for a filename, in stored order
ChunksOf(name, filename) ==
    SelectSeq(store[name], LAMBDA o : o.filename = filename)

IndicesOf(name, filename) ==
    {store[name][i].chunk_index :
        i \in {j \in DOMAIN store[name] : store[name][j].filename = filename}}

WhitespaceOnly(text) == \A i \in DOMAIN text : text[i].c \in {" ", "\n", "\t"}

\* the status a scenario must end in
ExpectedStatus(sc) ==
    IF ~sc.file.exists \/ sc.fault # "none" THEN "error"
    ELSE IF WhitespaceOnly(sc.file.text) THEN "warning"
    ELSE "success"

Callees(calls, caller) ==
    {calls[i][2] : i \in {j \in DOMAIN calls : calls[j][1] = caller}}

StoringCalls == {"chunk_text", "encode_batch", "delete_by_filename",
                 "add_document_chunks"}

\* chunk 0 followed by every later chunk without its first overlap
\* characters
Unchunk(chunks, overlap) ==
    Join(<<>>, [i \in DOMAIN chunks |->
                   IF i = 1 THEN chunks[i]
                   ELSE Slice(chunks[i], overlap, StrLen(chunks[i]))])

RECURSIVE CharAt(_, _)
\* s[k] for 0 <= k < len(s)
CharAt(s, k) == IF k < s[1].n THEN s[1].c ELSE CharAt(Tail(s), k - s[1].n)

\* chunk_text was called with 0 <= overlap < size
WellConfigured ==
    /\ last.op = "chunk_text"
    /\ 0 <= last.overlap
    /\ last.overlap < last.size

-----------------------------------------------------------------------------
(* Properties *)

\* C1: after process_file has run twice in a row on the same file with the
\* same collection_type (both runs reporting success), the collection holds
\* exactly N chunks for the filename, N the chunk count of one ingestion.
C1_ReingestLeavesExactlyN ==
    (/\ last.op = "process_file"
     /\ last.previous = "success"
     /\ last.result.status = "success")
    => Len(ChunksOf(CollectionOf(last.collection_type),
                    last.result.filename)) = last.result.chunks_count

\* C2: in every reachable state of either collection no two stored chunks
\* share (filename, chunk_index), and the chunk_index values of every filename
\* present are exactly 0..N-1 for some N >= 1.
C2_UniqueContiguousIndices ==
    \A name \in CollectionNames :
        /\ \A i, j \in DOMAIN store[name] :
              (/\ store[name][i].filename = store[name][j].filename
               /\ store[name][i].chunk_index = store[name][j].chunk_index)
              => i = j
        /\ \A i \in DOMAIN store[name] :
              LET f == store[name][i].filename
              IN  IndicesOf(name, f) = 0..(Len(ChunksOf(name, f)) - 1)

\* C3: every store operation invoked for one collection type leaves the
\* other collection unchanged.
C3_CollectionsIsolated ==
    [][last'.op \in {"process_file", "add_document_chunks",
                     "delete_by_filename", "clear_all"}
       => store'[OtherCollection(last'.collection_type)]
            = store[OtherCollection(last'.collection_type)]]_vars

\* a filename present in both collections with different chunk sets, the
\* last operation having written one of them
C3_Witness ==
    /\ last.op \in {"process_file", "add_document_chunks"}
    /\ ChunksOf("UserDocuments", "a.pdf") # <<>>
    /\ ChunksOf("ChecklistTemplates", "a.pdf") # <<>>
    /\ ChunksOf("UserDocuments", "a.pdf")
         # ChunksOf("ChecklistTemplates", "a.pdf")

\* C4: process_file always returns one of the statuses success, warning,
\* error; when a stage fails the status is error and the error field is
\* "<exception type name>: <message>", and only then.
C4_ProcessFileTotal ==
    last.op = "process_file" =>
        LET r == last.result
            sc == last.scenario
        IN  /\ r.status \in {"success", "warning", "error"}
            /\ r.status = ExpectedStatus(sc)
            /\ r.status = "error" =>
                 /\ Len(r.error) = 3
                 /\ r.error[1] \in {"FileNotFoundError", "PermissionError",
                                    "FileDataError", "RuntimeError",
                                    "WeaviateConnectionError",
                                    "UnexpectedStatusCodeError",
                                    "WeaviateBatchError"}
                 /\ r.error[2] = ": "
                 /\ r.error[3] # <<>>
                 /\ ~sc.file.exists =>
                      r.error = <<"FileNotFoundError", ": ",
                                  <<"File not found: ", last.file_path>> >>

\* an insertion that raised, reported as an error
C4_Witness ==
    /\ last.op = "process_file"
    /\ last.scenario.fault = "add"
    /\ last.result.status = "error"
    /\ last.result.error[1] = "WeaviateBatchError"

\* C5: when the index fails to insert a chunk of the batch, process_file
\* reports status error for the file.
C5_InsertFailureSurfaced ==
    (last.op = "process_file" /\ last.scenario.failed # {})
    => last.result.status = "error"

\* C6 as stated: on an empty or whitespace-only text process_file ends in
\* warning without any call of the chunker, the embedder, delete_by_filename
\* or add_document_chunks, and leaves both collections unchanged.
C6_BlankTextNoChunkerCall ==
    [][(/\ last'.op = "process_file"
        /\ last'.scenario.file.exists
        /\ last'.scenario.fault = "none"
        /\ WhitespaceOnly(last'.scenario.file.text))
       => /\ last'.result.status = "warning"
          /\ \A i \in DOMAIN last'.calls : last'.calls[i][2] \notin StoringCalls
          /\ store' = store]_vars

\* C6 amended: on an empty or whitespace-only text process_file ends in
\* warning, itself calls neither the chunker nor the embedder nor
\* delete_by_filename nor add_document_chunks (the one chunk_text call is the
\* one parse_pdf makes on every text), and leaves both collections unchanged.
C6_BlankTextStoresNothing ==
    [][(/\ last'.op = "process_file"
        /\ last'.scenario.file.exists
        /\ last'.scenario.fault = "none"
        /\ WhitespaceOnly(last'.scenario.file.text))
       => /\ last'.result.status = "warning"
          /\ Callees(last'.calls, "process_file") \cap StoringCalls = {}
          /\ \A i \in DOMAIN last'.calls :
                last'.calls[i][2] \in StoringCalls
                => last'.calls[i] = <<"parse_pdf", "chunk_text">>
          /\ store' = store]_vars

\* a whitespace-only file processed while the collection holds chunks
C6_Witness ==
    /\ last.op = "process_file"
    /\ last.scenario.file = BlankFile
    /\ last.result.status = "warning"
    /\ ChunksOf(CollectionOf(last.collection_type), "a.pdf") # <<>>

\* C7: process_batch processes the files one after another in input order
\* and returns one result per file, result i being that of file i, whatever
\* the status of the files before it.
C7_BatchSequentialInOrder ==
    last.op = "process_batch" =>
        LET rs == last.returned[1]
            n == Len(last.file_paths)
            t == last.trace
        IN  /\ Len(rs) = n
            /\ \A i \in 1..n :
                  /\ rs[i].file_path = last.file_paths[i]
                  /\ rs[i].status = ExpectedStatus(last.scenarios[i])
                  /\ Cardinality({j \in DOMAIN t :
                        t[j] = <<i, "process_batch", "process_file">>}) = 1
            /\ \A j, k \in DOMAIN t : j < k => t[j][1] <= t[k][1]

\* a batch whose first file fails and whose second file is ingested
C7_Witness ==
    /\ last.op = "process_batch"
    /\ Len(last.file_paths) = 2
    /\ last.returned[1][1].status = "error"
    /\ last.returned[1][2].status = "success"

\* C8 as stated: process_batch returns a summary count to its caller, and
\* the three counts sum to the number of input files.
C8_BatchReturnsSummary ==
    last.op = "process_batch" =>
        /\ Len(last.returned) = 2
        /\ last.returned[2].success_count + last.returned[2].error_count
             + last.returned[2].warning_count = Len(last.file_paths)

\* C8 amended: process_batch returns only the list of per-file results; the
\* counts of succeeded, failed and warned files are written to the log, and
\* they sum to the number of input files.
C8_BatchLogsSummary ==
    last.op = "process_batch" =>
        LET n == Len(last.file_paths)
            expected(status) ==
                Cardinality({i \in 1..n :
                    ExpectedStatus(last.scenarios[i]) = status})
        IN  /\ Len(last.returned) = 1
            /\ Len(last.returned[1]) = n
            /\ last.logged.success_count = expected("success")
            /\ last.logged.error_count = expected("error")
            /\ last.logged.warning_count = expected("warning")
            /\ last.logged.success_count + last.logged.error_count
                 + last.logged.warning_count = n

\* a batch with a failed and an ingested file
C8_Witness ==
    /\ last.op = "process_batch"
    /\ last.logged.error_count >= 1
    /\ last.logged.success_count >= 1

\* the text of every chunk a collection holds for a filename, in ascending
\* chunk_index order, joined with a blank line
AllChunksText(name, filename) ==
    LET chunks == SortSeq(ChunksOf(name, filename),
                          LAMBDA a, b : a.chunk_index < b.chunk_index)
    IN  Join(Str("\n", 2), [i \in DOMAIN chunks |-> chunks[i].content])

\* C9: get_document_content returns the contents of all chunks of the
\* filename joined with a blank line in ascending chunk_index order,
\* whatever order the index hands them out in, and None exactly when the
\* filename has no chunk in the collection.
C9_ContentIsAllChunksInOrder ==
    (last.op = "get_document_content" /\ ~last.raised) =>
        LET name == CollectionOf(last.collection_type)
        IN  IF Len(ChunksOf(name, last.filename)) = 0
            THEN last.ret = None
            ELSE last.ret = Some(AllChunksText(name, last.filename))

\* C10: a checklist run puts every question and every condition to the
\* judgment engine, each against the text of every chunk of the target
\* document in index order, for a document of any chunk count.
C10_RunUsesWholeDocument ==
    (last.op = "run_checklist" /\ ~last.raised) =>
        LET template == get_template(templates, last.request.checklist_id)
            text == AllChunksText("UserDocuments",
                                  last.request.document_filename)
            calls == last.llm_calls
        IN  /\ Len(calls) = Len(template.questions) + Len(template.conditions)
            /\ \A i \in DOMAIN template.questions :
                  \E j \in DOMAIN calls :
                      /\ calls[j].kind = "extract"
                      /\ calls[j].item = template.questions[i].question
            /\ \A i \in DOMAIN template.conditions :
                  \E j \in DOMAIN calls :
                      /\ calls[j].kind = "evaluate"
                      /\ calls[j].item = template.conditions[i].condition
            /\ \A j \in DOMAIN calls : calls[j].document_content = text

\* C11: in every result of run_checklist, overall_compliance is true exactly
\* when every evaluation recorded in the result has is_met true, and
\* compliance_percentage is 100 * met / total over the recorded evaluations;
\* with zero conditions it is 100 and overall_compliance is true.
C11_ComplianceAggregation ==
    (last.op = "run_checklist" /\ ~last.raised) =>
        LET evaluations == last.ret.evaluations
            total == Len(evaluations)
            met == Cardinality({i \in DOMAIN evaluations :
                                   evaluations[i].is_met})
            percentage == last.ret.compliance_percentage
        IN  /\ last.ret.overall_compliance
                 <=> (\A i \in DOMAIN evaluations : evaluations[i].is_met)
            /\ IF total = 0
               THEN /\ percentage.num = 100 * percentage.den
                    /\ last.ret.overall_compliance
               ELSE percentage.num * total = 100 * met * percentage.den

EngineOps ==
    {"extract_information", "evaluate_condition", "batch_extract",
     "batch_evaluate"}

BatchOps == {"batch_extract", "batch_evaluate"}

\* C12: whatever the completion call does (it fails, or returns unparseable
\* text, a JSON object or any other JSON value), the four operations of the
\* judgment engine return a value and never raise, and a batch goes through
\* all of its items.
C12_EngineTotal ==
    last.op \in EngineOps =>
        /\ ~last.raised
        /\ last.op \in BatchOps =>
              /\ Len(last.llm_calls) = Len(last.items)
              /\ Len(last.ret) = Len(last.items)

\* C13: batch_extract and batch_evaluate issue exactly one completion call
\* per input item, one after the other in input order, and return a list as
\* long as the input in which result i carries the id of item i.
C13_BatchOneCallPerItemInOrder ==
    last.op \in BatchOps =>
        LET id_key == IF last.op = "batch_extract" THEN "question_id"
                      ELSE "condition_id"
            text_key == IF last.op = "batch_extract" THEN "question"
                        ELSE "condition"
        IN  /\ Len(last.llm_calls) = Len(last.items)
            /\ \A i \in DOMAIN last.llm_calls :
                  /\ last.llm_calls[i].position = i
                  /\ last.llm_calls[i].item = last.items[i][text_key]
            /\ ~last.raised
            /\ Len(last.ret) = Len(last.items)
            /\ \A i \in DOMAIN last.items :
                  last.ret[i][id_key] = last.items[i].id

\* a text contains a part when it is one of the parts it is formatted from
Contains(text, part) == \E i \in DOMAIN text : text[i] = part

ApiFailed == last.op \in {"extract_information", "evaluate_condition"}
             /\ last.response.kind = "api_error"

\* C14 as stated: when the completion call itself fails, both operations
\* return a judgment with confidence low whose explanation (question) or
\* reasoning (condition) contains the error text, and evaluate_condition
\* returns is_met false.
C14_ErrorTextInExplanation ==
    ApiFailed =>
        /\ ~last.raised
        /\ last.ret.confidence = "low"
        /\ last.op = "extract_information" =>
              Contains(last.ret.explanation, last.response.message)
        /\ last.op = "evaluate_condition" =>
              /\ Contains(last.ret.reasoning, last.response.message)
              /\ last.ret.is_met = PyBool(FALSE)

\* C14 amended: when the completion call itself fails, both operations
\* return a judgment with confidence low; extract_information puts the error
\* text in the answer field ("Error: <text>") and the fixed explanation
\* "API call failed"; evaluate_condition returns is_met false and the
\* reasoning "API call failed: <text>".
C14_ErrorTextInAnswerOrReasoning ==
    ApiFailed =>
        /\ ~last.raised
        /\ last.ret.confidence = "low"
        /\ last.op = "extract_information" =>
              /\ last.ret.answer = <<"Error: ", last.response.message>>
              /\ last.ret.explanation = <<"API call failed">>
        /\ last.op = "evaluate_condition" =>
              /\ last.ret.reasoning
                   = <<"API call failed: ", last.response.message>>
              /\ last.ret.is_met = PyBool(FALSE)

\* extract_information has returned after a failed completion call
C14_Witness ==
    /\ last.op = "extract_information"
    /\ last.response.kind = "api_error"
    /\ last.ret.confidence = "low"

\* C15: compare_document_with_checklist treats every chunk stored for the
\* checklist file as an item: its report has total_items equal to the number
\* of chunks, non_compliant_count = total_items - compliant_count and
\* compliance_rate = compliant_count / total_items.
C15_ReportCountsEveryChunk ==
    (last.op = "compare_document_with_checklist" /\ last.chunks > 0) =>
        /\ last.ret.status = "success"
        /\ last.ret.total_items = last.chunks
        /\ last.ret.non_compliant_count
             = last.ret.total_items - last.ret.compliant_count
        /\ last.ret.compliance_rate
             = [num |-> last.ret.compliant_count,
                den |-> last.ret.total_items]

\* C16: an item for which the user document has no chunk to retrieve is
\* reported non-compliant with the reason that no relevant content was
\* found, confidence 0.0, and without a completion call.
C16_NoMatchNoModelCall ==
    (last.op = "check_item_compliance" /\ last.matches = 0) =>
        /\ ~Truthy(last.ret.compliant)
        /\ last.ret.reason = <<"No relevant content found in user document">>
        /\ last.ret.confidence = 0
        /\ last.llm_calls = <<>>

\* C17 as stated: comparing against a checklist file without chunks gives a
\* report with total_items = 0, compliant_count = 0, non_compliant_count = 0
\* and compliance_rate = 0.
C17_EmptyChecklistZeroReport ==
    (last.op = "compare_document_with_checklist" /\ last.chunks = 0) =>
        /\ "total_items" \in DOMAIN last.ret
        /\ last.ret.total_items = 0
        /\ last.ret.compliant_count = 0
        /\ last.ret.non_compliant_count = 0
        /\ last.ret.compliance_rate.num = 0

\* C17 amended: comparing against a checklist file without chunks gives no
\* report: the answer has status "error" and the error text "No checklist
\* items found for '<checklist filename>'", without any count, and no
\* completion call is made.
C17_EmptyChecklistIsError ==
    (last.op = "compare_document_with_checklist" /\ last.chunks = 0) =>
        /\ DOMAIN last.ret = {"status", "error"}
        /\ last.ret.status = "error"
        /\ last.ret.error = <<"No checklist items found for '",
                              last.checklist_filename, "'">>
        /\ last.llm_calls = <<>>

C17_Witness ==
    /\ last.op = "compare_document_with_checklist"
    /\ last.chunks = 0
    /\ Matching(USER_DOCUMENT_COLLECTION, last.user_filename) > 0
    /\ Matching(CHECKLIST_COLLECTION, "b.pdf") > 0
    /\ last.checklist_filename = "a.pdf"
    /\ last.ret.status = "error"

\* C18: in one process each external-service handle (vector-index service,
\* LLM client, embedding service) is constructed at most once, and every
\* accessor hands out that same instance.
C18_OneInstancePerService ==
    \A a, b \in Accessors :
        (a.service = b.service /\ handles[a] # 0 /\ handles[b] # 0)
            => handles[a] = handles[b]

\* C19 as stated: for 0 <= overlap < size chunk_text is deterministic,
\* chunk 0 followed by every later chunk without its first overlap
\* characters is the text, chunk_text("") is the empty list, and a text
\* shorter than size yields exactly one chunk equal to the text.
C19_RoundTripOneChunkBelowSize ==
    WellConfigured =>
        /\ last.outcome = "returned"
        /\ last.again = last.chunks
        /\ Unchunk(last.chunks, last.overlap) = last.text
        /\ last.text = <<>> => last.chunks = <<>>
        /\ (last.text # <<>> /\ StrLen(last.text) < last.size)
              => last.chunks = <<last.text>>

\* C19 amended: for 0 <= overlap < size chunk_text is deterministic, chunk 0
\* followed by every later chunk without its first overlap characters is the
\* text, chunk_text("") is the empty list, a non-empty text of at most
\* size - overlap characters yields exactly one chunk equal to the text, and
\* a text longer than size - overlap but shorter than size yields the text
\* as chunk 0 followed by further chunks that lie within it.
C19_RoundTripOneChunkBelowStep ==
    WellConfigured =>
        /\ last.outcome = "returned"
        /\ last.again = last.chunks
        /\ Unchunk(last.chunks, last.overlap) = last.text
        /\ last.text = <<>> => last.chunks = <<>>
        /\ (last.text # <<>>
              /\ StrLen(last.text) <= last.size - last.overlap)
              => last.chunks = <<last.text>>
        /\ (StrLen(last.text) > last.size - last.overlap
              /\ StrLen(last.text) < last.size)
              => /\ Len(last.chunks) > 1
                 /\ last.chunks[1] = last.text

\* a text of both characters was cut into at least three overlapping chunks
C19_Witness ==
    /\ WellConfigured
    /\ last.overlap > 0
    /\ Len(last.text) > 1
    /\ Len(last.chunks) >= 3
    /\ Unchunk(last.chunks, last.overlap) = last.text

\* C20: chunk_text called with overlap >= size fails with a configuration
\* error for every text, instead of returning chunks or running without end.
C20_OverlapNotBelowSizeFailsFast ==
    (last.op = "chunk_text" /\ last.overlap >= last.size) =>
        last.outcome = "raised"

\* C21: delete_by_filename is idempotent: for a filename without chunks in
\* the selected collection it does not raise and changes nothing, deleting
\* the same filename again changes nothing further, and the chunks of every
\* other filename of the collection (and the other collection) stay as they
\* were.
C21_DeleteIdempotent ==
    [][last'.op = "delete_by_filename" =>
        LET name == collection_name(last'.collection_type)
            others(st) == SelectSeq(st[name],
                                    LAMBDA o : o.filename # last'.filename)
            absent == \A i \in DOMAIN store[name] :
                          store[name][i].filename # last'.filename
            again == delete_by_filename(store', connected', last'.filename,
                                        last'.collection_type, "none")
        IN  /\ ~delete_by_filename(store, connected, last'.filename,
                                   last'.collection_type, "none").raised
            /\ \A other \in CollectionNames \ {name} :
                   store'[other] = store[other]
            /\ others(store') = others(store)
            /\ last'.raised => store' = store
            /\ ~last'.raised =>
                  /\ store'[name] = others(store)
                  /\ absent => (store' = store /\ last'.ret = 0)
                  /\ ~again.raised /\ again.store = store' /\ again.ret = 0
      ]_vars

\* a filename without chunks was deleted from a collection that holds the
\* chunks of another file
C21_Witness ==
    /\ last.op = "delete_by_filename"
    /\ ~last.raised
    /\ last.ret = 0
    /\ store[collection_name(last.collection_type)] # <<>>

C23_LastWriterWins ==
    (/\ \A caller \in Callers : ingestions[caller].pc = "done"
     /\ ingestions[1].file_path = ingestions[2].file_path
     /\ ingestions[1].collection_type = ingestions[2].collection_type) =>
        LET stored == ChunksOf(collection_name(ingestions[1].collection_type),
                               basename(ingestions[1].file_path))
            contents == [i \in DOMAIN stored |-> stored[i].content]
        IN  \E caller \in Callers : contents = ingestions[caller].chunks

\* C24: when the completion is not JSON as a whole but holds a fenced code
\* block (with or without a language tag) whose contents are valid JSON,
\* extract_information and evaluate_condition return the judgment parsed
\* from that block, not a degraded judgment.
C24_FencedBlockIsParsed ==
    (/\ last.op \in {"extract_information", "evaluate_condition"}
     /\ last.response.kind = "fenced") =>
        last.ret = last.response.value

\* C25: when the completion is neither valid JSON nor holds a fenced block,
\* extract_information returns the raw text as the answer with confidence
\* medium and the note that parsing failed, and evaluate_condition returns
\* is_met false, confidence low and the reasoning "Response parsing failed";
\* the confidence of a judgment degraded by a parse failure is low or medium.
C25_ParseDegradedJudgment ==
    (/\ last.op \in {"extract_information", "evaluate_condition"}
     /\ last.response.kind = "text") =>
        /\ ~last.raised
        /\ last.ret.confidence \in {"low", "medium"}
        /\ last.op = "extract_information" =>
              /\ last.ret.answer = <<last.response.text>>
              /\ last.ret.confidence = "medium"
              /\ last.ret.explanation = <<"Response parsing failed">>
        /\ last.op = "evaluate_condition" =>
              /\ last.ret.is_met = PyBool(FALSE)
              /\ last.ret.confidence = "low"
              /\ last.ret.reasoning = <<"Response parsing failed">>

\* evaluate_condition has returned on a completion that is plain text
C25_Witness ==
    /\ last.op = "evaluate_condition"
    /\ last.response.kind = "text"
    /\ last.ret.reasoning = <<"Response parsing failed">>

\* C26: with 0 <= overlap < size chunk_text terminates and returns the
\* windows in order: there is a chunk exactly for every i with
\* i * (size - overlap) < len(text), chunk i is
\* text[i*(size-overlap) : i*(size-overlap)+size], and a chunk shorter than
\* size is followed only by chunks shorter than size.
C26_WindowsInOrder ==
    WellConfigured =>
        LET step == last.size - last.overlap
            length == StrLen(last.text)
            starts == {i \in 0..length : i * step < length}
        IN  /\ last.outcome = "returned"
            /\ Len(last.chunks) = Cardinality(starts)
            /\ \A i \in starts :
                 LET chunk == last.chunks[i + 1]
                 IN  /\ StrLen(chunk) = Min(last.size, length - i * step)
                     /\ \A k \in 0..(StrLen(chunk) - 1) :
                            CharAt(chunk, k) = CharAt(last.text, i * step + k)
            /\ \A i, j \in DOMAIN last.chunks :
                 (i < j /\ StrLen(last.chunks[i]) < last.size)
                     => StrLen(last.chunks[j]) < last.size

\* a text was cut into windows of which the last two are shorter than size
C26_Witness ==
    /\ WellConfigured
    /\ Len(last.chunks) >= 3
    /\ StrLen(last.chunks[1]) = last.size
    /\ StrLen(last.chunks[Len(last.chunks) - 1]) < last.size
    /\ StrLen(last.chunks[Len(last.chunks)]) < last.size

\* C27: after process_file has returned success or warning for a filename,
\* the selected collection holds for that filename exactly the chunks of the
\* text extracted by this call (none, if that text was empty): no chunk of an
\* earlier ingestion is left.
C27_NoStaleChunks ==
    (last.op = "process_file" /\ last.result.status \in {"success", "warning"}) =>
        LET stored == ChunksOf(collection_name(last.collection_type),
                               basename(last.file_path))
            text == last.scenario.file.text
        IN  [i \in DOMAIN stored |-> stored[i].content]
              = IF IsBlank(text) THEN <<>>
                ELSE chunk_text(text, INGEST_CHUNK_SIZE, INGEST_OVERLAP)

\* C28: process_file touches the index only after reading, extraction,
\* chunking and embedding have all succeeded.  A call that fails at one of
\* those stages leaves every collection exactly as it was, and within one call
\* the eviction comes after the four preparing calls and before the insertion.
C28_StoreTouchedLast ==
    [][ last'.op = "process_file" =>
          LET calls == last'.calls
              sc == last'.scenario
              At(callee) == {i \in DOMAIN calls :
                               calls[i] = <<"process_file", callee>>}
          IN  /\ (/\ last'.result.status = "error"
                  /\ \/ ~sc.file.exists
                     \/ sc.fault \in {"read", "parse", "embed"})
                    => store' = store
              /\ At("delete_by_filename") = {} => store' = store
              /\ \A d \in At("delete_by_filename") :
                    /\ \A callee \in {"upload_pdf_to_weaviate", "parse_pdf",
                                      "chunk_text", "encode_batch"} :
                          \E i \in At(callee) : i < d
                    /\ \A a \in At("add_document_chunks") : d < a
              /\ At("add_document_chunks") # {}
                    => At("delete_by_filename") # {} ]_vars

\* An embedding failure on a file whose chunks of an earlier ingestion are in
\* the index.
C28_Witness ==
    /\ last.op = "process_file"
    /\ last.result.status = "error"
    /\ last.scenario.fault = "embed"
    /\ last.calls # <<>>
    /\ ChunksOf(collection_name(last.collection_type),
                basename(last.file_path)) # <<>>

\* C29: an upload of a file named F that is answered with success has
\* stored the chunks of the uploaded file under filename F in the user
\* collection, where the operations keyed by F find them.
C29_UploadStoredUnderItsName ==
    (last.op = "upload_user_document" /\ ~last.raised
       /\ ~IsBlank(last.file.text)) =>
        LET stored == ChunksOf(USER_DOCUMENT_COLLECTION, last.filename)
        IN  [i \in DOMAIN stored |-> stored[i].content]
              = chunk_text(last.file.text, INGEST_CHUNK_SIZE, INGEST_OVERLAP)

\* C30: every operation that reads or writes the index establishes the lazy
\* connection when it is not yet established, so it does not fail for being
\* the first index operation of the process: a checklist run on an ingested
\* document with an existing template connects and is not answered 500 when
\* the index itself answers, reconstruction and deletion leave the process
\* connected, and only a new process is unconnected again.
C30_FirstOperationConnects ==
    [][ /\ (/\ last'.op = "run_checklist"
            /\ last'.fault = "none"
            /\ get_template(templates, last'.request.checklist_id) # None
            /\ ChunksOf(USER_DOCUMENT_COLLECTION,
                        last'.request.document_filename) # <<>>)
              => /\ connected'
                 /\ ~(last'.raised /\ last'.ret.status_code = 500)
        /\ (/\ last'.op \in {"get_document_content", "delete_by_filename"}
            /\ ~last'.raised)
              => connected'
        /\ (connected /\ last'.op # "start_process") => connected' ]_vars

====
